---- MODULE Spec2Model ----
(***************************************************************************)
(* Session-scoped video generation controller                              *)
(* (src/content-pipeline/video_gen.py, class VideoGenerator).              *)
(*                                                                         *)
(* One controller instance: its budget ledger (session_cost against        *)
(* budget_limit), its generation cache (prompt fingerprint -> path), its   *)
(* record list, and the assets directory it writes to.  One request        *)
(* (generate_scene_video) is a walk through                                *)
(*   CacheCheck -> BudgetCheck -> Requesting -> Downloading -> Recording   *)
(* ending in Done (a path is returned) or Failed (None is returned).       *)
(*                                                                         *)
(* Money is counted in cents, so 0.50 USD per second is 50 and a budget    *)
(* of 10.0 USD is 1000.  The wall-clock field generation_time of a record  *)
(* is left out of the records.                                             *)
(***************************************************************************)
EXTENDS Integers, Sequences, FiniteSets, TLC

VARIABLES
    dry_run,            \* self.dry_run
    simulate,           \* self.simulate
    budget_limit,       \* self.budget_limit (cents)
    session_cost,       \* self.session_cost (cents)
    generated_videos,   \* self.generated_videos
    cache,              \* self.cache: prompt hash -> path
    files,              \* the assets directory: path -> file content
    pc,                 \* position of the current request
    req,                \* locals of the current request
    ret,                \* value returned by the last finished request
    outcome,            \* why the last finished request ended as it did
    events,             \* external effects of the current request, in order
    pre,                \* session state and directory at the start of the request
    prev,               \* scene, fingerprint and return value of the request
                        \* before this one
    nreq,               \* requests started so far
    observed,           \* what __init__ read of its environment
    summary,            \* what get_session_summary last returned to the caller
    command,            \* the CLI command of main.py that is running ("none":
                        \* the functions are called by some other caller)
    exit_code,          \* exit code of the command, -1 while it runs
    bpc,                \* where the command is
    scene_objects,      \* the scenes of the batch, in order
    skip_existing,      \* --skip-existing (TRUE) or --overwrite (FALSE)
    existing_videos,    \* check_existing_assets(scene_objects, "video")
    existing_images,    \* check_existing_assets(scene_objects, "image")
    scene_index,        \* position of the running loop in scene_objects
    results,            \* video results of the batch, by scene id
    image_results,      \* image results of the batch, by scene id
    img,                \* the current call of generate_scene_image
    others,             \* the controllers that exist besides self, each with
                        \* its own fields
    parse,              \* the current call of parse_scenes_with_metadata
    other_thread        \* the locals of the request that another thread of
                        \* the caller has running on self

vars == <<dry_run, simulate, budget_limit, session_cost, generated_videos,
          cache, files, pc, req, ret, outcome, events, pre, prev, nreq,
          observed, summary,
          command, exit_code, bpc, scene_objects, skip_existing,
          existing_videos, existing_images, scene_index, results,
          image_results, img,
          others, parse, other_thread>>

----------------------------------------------------------------------------
(* Bounds of the model *)

MaxRequests == 3

\* Calls of generate_scene_image by a caller other than the commands
MaxImageRequests == 2

\* Largest max_retries such a caller passes
MaxImageRetries == 2

----------------------------------------------------------------------------
(* Configuration constants, video_gen.py lines 35-44 *)

DEFAULT_DURATION == 10

MAX_RETRIES == 2

RETRY_DELAY == 5

\* 0.50 USD, in cents
ESTIMATED_COST_PER_SECOND == 50

\* 50.00 USD, in cents
MAX_BUDGET_PER_SESSION == 5000

\* Python's None as a return value of generate_scene_video
None == "None"

\* Python's None as a result of _call_fal_api
NoResult == [py_none |-> TRUE]

\* self.assets_dir
assets_dir == "assets"

----------------------------------------------------------------------------
(* Inputs: scenes, reference images, budgets, external responses *)

SceneA == [title |-> "Forest Encounter", setting |-> "Dark forest",
           characters |-> <<"Lena", "Stranger">>,
           summary |-> "Lena meets a stranger", tone |-> "mysterious"]

SceneB == [title |-> "Epic Battle", setting |-> "Castle courtyard",
           characters |-> <<"Hero">>,
           summary |-> "The hero fights", tone |-> "dramatic"]

SceneC == [title |-> "Empty Road", setting |-> "Desert highway",
           characters |-> <<>>,
           summary |-> "Wind blows", tone |-> "calm"]

WithId(s, i) == [id |-> i, title |-> s.title, setting |-> s.setting,
                 characters |-> s.characters, summary |-> s.summary,
                 tone |-> s.tone]

\* Scene 1 and its copy with id 42 share a prompt; scene 1 also comes with a
\* second text (same id, other prompt); scene 3 has no characters.
Scenes == {WithId(SceneA, 1), WithId(SceneA, 42), WithId(SceneB, 1),
           WithId(SceneC, 3)}

ImagePaths == {None, "assets/scene_1.png"}

\* budget_limit values a controller is constructed with (cents)
Budgets == {0, 100, 1000, MAX_BUDGET_PER_SESSION}

\* The environment a controller is constructed in: whether fal_client could be
\* imported and whether os.getenv("FAL_KEY") yields a key
Environments == [fal_client : BOOLEAN, FAL_KEY : BOOLEAN]

MockUrl == "https://example.com/mock_video.mp4"

SimulatedUrl == "https://example.com/simulated_video.mp4"

RemoteUrl == "https://fal.media/files/video.mp4"

\* What fal_client.subscribe can hand back in production mode
ApiResults == {
    NoResult,
    [duration |-> DEFAULT_DURATION],
    [video |-> [content_type |-> "video/mp4"], duration |-> DEFAULT_DURATION],
    [video |-> NoResult, duration |-> DEFAULT_DURATION],
    [video |-> [url |-> RemoteUrl], duration |-> DEFAULT_DURATION] }

\* One attempt of fal_client.subscribe: it raises, or it returns a result
ApiOutcomes == {[raises |-> TRUE, result |-> NoResult]}
               \cup {[raises |-> FALSE, result |-> r] : r \in ApiResults}

\* requests.get + the write loop: all written, failed before the file was
\* opened, or failed after it was opened (a partial file is left behind)
DownloadOutcomes == {"ok", "failed_before_open", "failed_after_open"}

----------------------------------------------------------------------------
(* Pure helpers *)

RECURSIVE Join(_, _)
\* sep.join(parts)
Join(sep, parts) ==
    IF parts = <<>> THEN ""
    ELSE IF Len(parts) = 1 THEN parts[1]
    ELSE parts[1] \o sep \o Join(sep, Tail(parts))

\* Mutant of _build_video_prompt: the reference image is part of the prompt
_build_video_prompt_with_image(scene, image_path) ==
    Join(". ", <<"Scene: " \o scene.title, "Setting: " \o scene.setting>>
               \o (IF scene.characters # <<>>
                   THEN <<"Characters: " \o Join(", ", scene.characters)>>
                   ELSE <<>>)
               \o <<"Action: " \o scene.summary, "Tone: " \o scene.tone>>
               \o (IF image_path # None
                   THEN <<"Reference: " \o image_path>> ELSE <<>>))

\* VideoGenerator._build_video_prompt: image_path is accepted and not used
_build_video_prompt(scene, image_path) ==
    LET head == <<"Scene: " \o scene.title, "Setting: " \o scene.setting>>
        chars == IF scene.characters # <<>>
                 THEN <<"Characters: " \o Join(", ", scene.characters)>>
                 ELSE <<>>
        body == <<"Action: " \o scene.summary, "Tone: " \o scene.tone>>
        tech == <<"Style: Cinematic, high quality, professional lighting",
                  "Camera: Dynamic cinematography with smooth movements",
                  "Duration: 8-12 seconds",
                  "Quality: 1080p resolution, 24fps">>
    IN Join(". ", head \o chars \o body \o tech)

\* hashlib.md5(prompt.encode()).hexdigest()[:12], tabulated on the prompts of
\* Scenes (the values are the real digests); the digest of any other prompt
\* is left symbolic
_generate_prompt_hash(prompt) ==
    CASE prompt = "Scene: Forest Encounter. Setting: Dark forest. Characters: Lena, Stranger. Action: Lena meets a stranger. Tone: mysterious. Style: Cinematic, high quality, professional lighting. Camera: Dynamic cinematography with smooth movements. Duration: 8-12 seconds. Quality: 1080p resolution, 24fps"
           -> "bec0b90d819b"
      [] prompt = "Scene: Epic Battle. Setting: Castle courtyard. Characters: Hero. Action: The hero fights. Tone: dramatic. Style: Cinematic, high quality, professional lighting. Camera: Dynamic cinematography with smooth movements. Duration: 8-12 seconds. Quality: 1080p resolution, 24fps"
           -> "18c89a5ddcdc"
      [] prompt = "Scene: Empty Road. Setting: Desert highway. Action: Wind blows. Tone: calm. Style: Cinematic, high quality, professional lighting. Camera: Dynamic cinematography with smooth movements. Duration: 8-12 seconds. Quality: 1080p resolution, 24fps"
           -> "e11f1bdc0e75"
      [] OTHER -> "md5 of \"" \o prompt \o "\""

\* Mutant of PromptHash: the cache key also depends on the scene id
PromptHash_per_scene(scene, image_path) ==
    _generate_prompt_hash(_build_video_prompt(scene, image_path))
        \o "#" \o ToString(scene.id)

\* "Build prompt": the fingerprint generate_scene_video computes for a request
PromptHash(scene, image_path) ==
    _generate_prompt_hash(_build_video_prompt(scene, image_path))

\* Mutant of _check_budget: the estimate is left out of the comparison
_check_budget_without_estimate(estimated_cost) ==
    ~(session_cost > budget_limit)

\* Mutant of _check_budget: a sum equal to the limit is refused as well
_check_budget_refuses_equal(estimated_cost) ==
    ~(session_cost + estimated_cost >= budget_limit)

\* VideoGenerator._check_budget: TRUE when it returns, FALSE when it raises
\* BudgetExceededException
_check_budget(estimated_cost) ==
    ~(session_cost + estimated_cost > budget_limit)

\* Mutant of EstimatedCost: the rate is left out
EstimatedCost_without_rate == DEFAULT_DURATION

\* estimated_cost = DEFAULT_DURATION * ESTIMATED_COST_PER_SECOND
EstimatedCost == DEFAULT_DURATION * ESTIMATED_COST_PER_SECOND

\* Mutant of CachedPath: the file's existence is not checked
CachedPath_unchecked(prompt_hash) ==
    IF prompt_hash \in DOMAIN cache THEN cache[prompt_hash] ELSE None

\* The cache check of generate_scene_video: the cached path, if the
\* fingerprint is cached and the file is still there; None otherwise
CachedPath(prompt_hash) ==
    IF prompt_hash \in DOMAIN cache /\ cache[prompt_hash] \in DOMAIN files
    THEN cache[prompt_hash]
    ELSE None

\* output_filename = f"scene_{scene.id}.mp4"
FileName(scene) == "scene_" \o ToString(scene.id) \o ".mp4"

\* output_path = self.assets_dir / output_filename
OutputPath(scene) == assets_dir \o "/" \o FileName(scene)

\* `if result and "video" in result` of the retry loop
ResultAccepted(result) == result # NoResult /\ "video" \in DOMAIN result

\* Mutant of HasNextAttempt: one round too many
HasNextAttempt_off_by_one(attempt) == attempt <= MAX_RETRIES

\* The retry loop goes round again after attempt number `attempt` (0-based)
\* when range(MAX_RETRIES + 1) has a next value
HasNextAttempt(attempt) == attempt < MAX_RETRIES

\* Mutant of RetryAfterError: an exception is retried once more
RetryAfterError_once_more(attempt) == attempt <= MAX_RETRIES

\* "if attempt < MAX_RETRIES" of the except branch: sleep and go round again
RetryAfterError(attempt) == attempt < MAX_RETRIES

\* Mutant of _download_video: the except branch returns True as well
_download_video_always_true(d) == TRUE

\* The return value of _download_video: True when everything was written,
\* False when requests.get, raise_for_status or the write loop raised
_download_video(d) == d = "ok"

\* Marks result.get("video", {}).get("url") raising AttributeError
Raises == "raises"

\* result.get("video", {}).get("url"): None when there is no url, Raises when
\* the video field is None and has no get
VideoUrl(result) ==
    IF "video" \notin DOMAIN result THEN None
    ELSE IF result.video = NoResult THEN Raises
    ELSE IF "url" \in DOMAIN result.video THEN result.video.url
    ELSE None

\* Mutant of _init_fal_client: no early return in test mode
_init_fal_client_always_checks(env) == env.fal_client /\ env.FAL_KEY

\* VideoGenerator._init_fal_client: TRUE when it returns, FALSE when it raises
\* VideoGenerationError
_init_fal_client(env) ==
    IF dry_run \/ simulate THEN TRUE
    ELSE IF ~env.fal_client THEN FALSE
    ELSE env.FAL_KEY

\* What _init_fal_client looks at: nothing in test mode, else fal_client and,
\* when that is there, FAL_KEY
InitReads(env) ==
    IF dry_run \/ simulate THEN <<>>
    ELSE IF ~env.fal_client THEN [fal_client |-> FALSE]
    ELSE [fal_client |-> TRUE, FAL_KEY |-> env.FAL_KEY]

\* Mutant of TestMode: simulate does not count as a test mode
TestMode_dry_run_only == dry_run

\* "if not self.dry_run and not self.simulate: ... else:" of
\* generate_scene_video: the controller runs without the external service
TestMode == dry_run \/ simulate

----------------------------------------------------------------------------
(* State helpers *)

\* The file system after `path` is written with `content`
WriteFile(fs, path, content) ==
    [p \in DOMAIN fs \cup {path} |-> IF p = path THEN content ELSE fs[p]]

\* The file system after `path` is removed
RemoveFile(fs, path) == [p \in DOMAIN fs \ {path} |-> fs[p]]

\* The assets directory after _download_video: open(output_path, 'wb') creates
\* or truncates the file before the chunks are written
DownloadedFiles(fs, path, prompt_hash, d) ==
    CASE d = "ok" ->
           WriteFile(fs, path, [text |-> "video", made_from |-> prompt_hash])
      [] d = "failed_after_open" ->
           WriteFile(fs, path, [text |-> "partial", made_from |-> prompt_hash])
      [] d = "failed_before_open" -> fs

\* Mutant of CacheStore: nothing is stored
CacheStore_nothing(c, prompt_hash, path) == c

\* Mutant of CacheStore: a fingerprint that is cached keeps its path
CacheStore_keep_first(c, prompt_hash, path) ==
    [h \in DOMAIN c \cup {prompt_hash} |-> IF h \in DOMAIN c THEN c[h] ELSE path]

\* self.cache[prompt_hash] = str(output_path)
CacheStore(c, prompt_hash, path) ==
    [h \in DOMAIN c \cup {prompt_hash} |-> IF h = prompt_hash THEN path ELSE c[h]]

\* Mutant of Record: the entry carries no cost
Record_without_cost(scene, path, cost, prompt_hash) ==
    [scene_id |-> scene.id, path |-> path, cost |-> 0,
     prompt_hash |-> prompt_hash]

\* The entry appended to self.generated_videos
Record(scene, path, cost, prompt_hash) ==
    [scene_id |-> scene.id, path |-> path, cost |-> cost,
     prompt_hash |-> prompt_hash]

\* Mutant of AppendVideo: the new entry is put in front
AppendVideo_in_front(videos, record) == <<record>> \o videos

\* self.generated_videos.append({...})
AppendVideo(videos, record) == Append(videos, record)

\* Mutant of get_session_summary: the remaining budget ignores what was spent
get_session_summary_full_budget ==
    [videos_generated |-> Len(generated_videos),
     total_cost |-> session_cost,
     budget_remaining |-> budget_limit,
     videos |-> generated_videos,
     dry_run |-> dry_run,
     simulate |-> simulate]

\* VideoGenerator.get_session_summary
get_session_summary ==
    [videos_generated |-> Len(generated_videos),
     total_cost |-> session_cost,
     budget_remaining |-> budget_limit - session_cost,
     videos |-> generated_videos,
     dry_run |-> dry_run,
     simulate |-> simulate]

\* The request has returned to its caller
Returned == pc \in {"Idle", "Done", "Failed"}

\* Mutant of Fail: the two except clauses are missing, so
\* BudgetExceededException and unexpected exceptions leave the method
Fail_uncaught(why) ==
    /\ pc' = IF why \in {"budget_exceeded", "unexpected_error"}
             THEN "Raised" ELSE "Failed"
    /\ ret' = None
    /\ outcome' = why

\* generate_scene_video returns None: the request ends in Failed
Fail(why) ==
    /\ pc' = "Failed"
    /\ ret' = None
    /\ outcome' = why

Session == <<session_cost, generated_videos, cache>>

Config == <<dry_run, simulate, budget_limit>>

\* The controller and its current request
Controller ==
    <<Config, Session, pc, req, ret, outcome, events, pre, prev, nreq,
      observed>>

\* The state of a command of main.py
Batch ==
    <<command, exit_code, bpc, scene_objects, skip_existing, existing_videos,
      existing_images, scene_index, results, image_results>>

\* What the actions of one controller, of a command and of the image
\* generator do not touch
Elsewhere == <<others, parse, other_thread>>

\* No command is running
NoCommand ==
    /\ command = "none"
    /\ exit_code = -1
    /\ bpc = "off"
    /\ scene_objects = <<>>
    /\ skip_existing = FALSE
    /\ existing_videos = <<>>
    /\ existing_images = <<>>
    /\ scene_index = 0
    /\ results = <<>>
    /\ image_results = <<>>

\* generate_scene_image has not been called
NoImageRequest ==
    [pc |-> "Idle", scene |-> WithId(SceneA, 1), max_retries |-> 0,
     client |-> FALSE, attempt |-> 0, events |-> <<>>, ret |-> None,
     n |-> 0]

\* parse_scenes_with_metadata has not been called
NoParseRequest ==
    [pc |-> "Idle", story_text |-> [type |-> "str", text |-> ""],
     client |-> FALSE, attempt |-> 0, response_data |-> NoResult,
     scenes |-> <<>>, raised |-> None, result |-> NoResult, n |-> 0]

\* No other thread has called generate_scene_video
NoThread ==
    [pc |-> "Idle",
     req |-> [scene |-> WithId(SceneA, 1), prompt_hash |-> "",
              output_path |-> "", attempt |-> 0, video_url |-> None],
     ret |-> None, outcome |-> "none", events |-> <<>>,
     pre |-> [session_cost |-> 0, generated_videos |-> <<>>,
              cache |-> <<>>, files |-> <<>>]]

\* self is the only controller, used by one thread, and nothing is being
\* parsed
NothingElse ==
    /\ others = <<>>
    /\ parse = NoParseRequest
    /\ other_thread = NoThread

----------------------------------------------------------------------------
(* VideoGenerator.__init__ *)

\* The arguments of the constructor are chosen; nothing has run yet
Unconstructed ==
    /\ dry_run \in BOOLEAN
    /\ simulate \in BOOLEAN
    /\ session_cost = 0
    /\ generated_videos = <<>>
    /\ cache = <<>>
    /\ pc = "New"
    /\ req = [scene |-> WithId(SceneA, 1), prompt_hash |-> "",
              output_path |-> "", attempt |-> 0, video_url |-> None]
    /\ ret = None
    /\ outcome = "none"
    /\ events = <<>>
    /\ pre = [session_cost |-> 0, generated_videos |-> <<>>, cache |-> <<>>,
              files |-> <<>>]
    /\ prev = [scene |-> WithId(SceneA, 1), prompt_hash |-> "", ret |-> None,
               billed |-> 0]
    /\ nreq = 0
    /\ observed = <<>>
    /\ summary = NoResult

\* A controller that some caller other than the generate-videos command is
\* about to construct, on an empty assets directory
Init ==
    /\ Unconstructed
    /\ budget_limit \in Budgets
    /\ files = <<>>
    /\ NoCommand
    /\ img = NoImageRequest
    /\ NothingElse

\* __init__ runs in environment env: the session starts empty and
\* _init_fal_client either returns or raises VideoGenerationError, in which
\* case there is no controller
VideoGenerator(env) ==
    /\ pc = "New"
    /\ observed' = InitReads(env)
    /\ IF _init_fal_client(env)
       THEN /\ pc' = "Idle"
            /\ UNCHANGED outcome
       ELSE /\ pc' = "InitFailed"
            /\ outcome' = "VideoGenerationError"
    /\ UNCHANGED <<Config, Session, files, req, ret, events, pre, prev, nreq,
                   summary>>

\* Some caller constructs the controller
Construct(env) ==
    /\ VideoGenerator(env)
    /\ UNCHANGED <<Batch, img, Elsewhere>>

----------------------------------------------------------------------------
(* VideoGenerator.generate_scene_video, step by step *)

\* The number of calls of fal_client.subscribe in request r, with these
\* events, that returned a video url: the generation service has produced,
\* and bills, that video, and the retry loop ends with it
VideosReturned(r, evs) ==
    IF r.video_url # None /\ \E k \in 1..Len(evs) : evs[k] = "api_ok"
    THEN 1 ELSE 0

\* The caller invokes generate_scene_video(scene, image_path): the prompt is
\* built and fingerprinted
StartRequest(scene, image_path) ==
    /\ pc' = "CacheCheck"
    /\ req' = [scene |-> scene,
               prompt_hash |-> PromptHash(scene, image_path),
               output_path |-> "", attempt |-> 0, video_url |-> None]
    /\ events' = <<>>
    /\ pre' = [session_cost |-> session_cost,
               generated_videos |-> generated_videos,
               cache |-> cache, files |-> files]
    /\ prev' = [scene |-> req.scene, prompt_hash |-> req.prompt_hash,
                ret |-> ret,
                billed |-> prev.billed + VideosReturned(req, events)]
    /\ nreq' = nreq + 1
    /\ UNCHANGED <<Config, Session, files, ret, outcome, observed>>

\* Some caller of the controller starts its next request
Call(scene, image_path) ==
    /\ Returned
    /\ nreq < MaxRequests
    /\ StartRequest(scene, image_path)
    /\ summary' = NoResult
    /\ UNCHANGED <<Batch, img, Elsewhere>>

\* Mutant of CacheCheck: the budget is looked at before the cache
CacheCheck_budget_first ==
    /\ pc = "CacheCheck"
    /\ LET cached_path == CachedPath(req.prompt_hash)
       IN IF ~_check_budget(EstimatedCost)
          THEN Fail("budget_exceeded")
          ELSE IF cached_path # None
          THEN /\ pc' = "Done"
               /\ ret' = cached_path
               /\ outcome' = "cache_hit"
          ELSE /\ pc' = "BudgetCheck"
               /\ UNCHANGED <<ret, outcome>>
    /\ UNCHANGED <<Config, Session, files, req, events, pre, prev, nreq,
                   observed, summary, Batch, img, Elsewhere>>

\* "Check cache first": a cached path whose file exists is returned at once
CacheCheck ==
    /\ pc = "CacheCheck"
    /\ LET cached_path == CachedPath(req.prompt_hash)
       IN IF cached_path # None
          THEN /\ pc' = "Done"
               /\ ret' = cached_path
               /\ outcome' = "cache_hit"
          ELSE /\ pc' = "BudgetCheck"
               /\ UNCHANGED <<ret, outcome>>
    /\ UNCHANGED <<Config, Session, files, req, events, pre, prev, nreq, observed, summary, Batch, img,
                   Elsewhere>>

\* "Check budget", then "Generate output path"; BudgetExceededException is
\* caught by generate_scene_video itself, which returns None
BudgetCheck ==
    /\ pc = "BudgetCheck"
    /\ IF _check_budget(EstimatedCost)
       THEN /\ pc' = "Requesting"
            /\ req' = [req EXCEPT !.output_path = OutputPath(req.scene)]
            /\ UNCHANGED <<ret, outcome>>
       ELSE /\ Fail("budget_exceeded")
            /\ UNCHANGED req
    /\ UNCHANGED <<Config, Session, files, events, pre, prev, nreq, observed, summary, Batch, img,
                   Elsewhere>>

\* _call_fal_api has returned `result` (its loop counter is gone): "if not
\* result", then the video url is read; a result without one ends the request,
\* as does the AttributeError (caught by "except Exception")
AfterCall(result) ==
    IF result = NoResult
    THEN /\ Fail("api_failed")
         /\ req' = [req EXCEPT !.attempt = 0]
    ELSE IF VideoUrl(result) = Raises
    THEN /\ Fail("unexpected_error")
         /\ req' = [req EXCEPT !.attempt = 0]
    ELSE IF VideoUrl(result) = None
    THEN /\ Fail("no_video_url")
         /\ req' = [req EXCEPT !.attempt = 0]
    ELSE /\ pc' = "Downloading"
         /\ req' = [req EXCEPT !.attempt = 0, !.video_url = VideoUrl(result)]
         /\ UNCHANGED <<ret, outcome>>

\* _call_fal_api in dry-run mode: a mock result, no call
RequestDryRun ==
    /\ pc = "Requesting"
    /\ dry_run
    /\ AfterCall([video |-> [url |-> MockUrl], duration |-> DEFAULT_DURATION])
    /\ UNCHANGED <<Config, Session, files, events, pre, prev, nreq, observed, summary, Batch, img,
                   Elsewhere>>

\* Mutant of RequestSimulate: the simulate branch is looked at first
RequestSimulate_first ==
    /\ pc = "Requesting"
    /\ simulate
    /\ events' = Append(events, "simulate_sleep")
    /\ AfterCall([video |-> [url |-> SimulatedUrl],
                  duration |-> DEFAULT_DURATION])
    /\ UNCHANGED <<Config, Session, files, pre, prev, nreq, observed, summary,
                   Batch, img, Elsewhere>>

\* _call_fal_api in simulate mode: time.sleep(10), a mock result, no call
RequestSimulate ==
    /\ pc = "Requesting"
    /\ ~dry_run
    /\ simulate
    /\ events' = Append(events, "simulate_sleep")
    /\ AfterCall([video |-> [url |-> SimulatedUrl],
                  duration |-> DEFAULT_DURATION])
    /\ UNCHANGED <<Config, Session, files, pre, prev, nreq, observed, summary, Batch, img,
                   Elsewhere>>

\* One round of the retry loop of _call_fal_api in production mode:
\* fal_client.subscribe is called and raises or returns o.result.  An
\* exception is followed by time.sleep(RETRY_DELAY) unless it was the last
\* round; a result that is not accepted is logged and the loop goes on
ApiAttempt(o) ==
    /\ pc = "Requesting"
    /\ ~dry_run
    /\ ~simulate
    /\ IF o.raises
       THEN IF RetryAfterError(req.attempt)
            THEN /\ events' = events \o <<"api_call", "api_error", "retry_sleep">>
                 /\ req' = [req EXCEPT !.attempt = req.attempt + 1]
                 /\ UNCHANGED <<pc, ret, outcome>>
            ELSE /\ events' = events \o <<"api_call", "api_error">>
                 /\ AfterCall(NoResult)
       ELSE IF ResultAccepted(o.result)
            THEN /\ events' = events \o <<"api_call", "api_ok">>
                 /\ AfterCall(o.result)
            ELSE IF HasNextAttempt(req.attempt)
                 THEN /\ events' = events \o <<"api_call", "api_invalid">>
                      /\ req' = [req EXCEPT !.attempt = req.attempt + 1]
                      /\ UNCHANGED <<pc, ret, outcome>>
                 ELSE /\ events' = events \o <<"api_call", "api_invalid">>
                      /\ AfterCall(NoResult)
    /\ UNCHANGED <<Config, Session, files, pre, prev, nreq, observed, summary, Batch, img,
                   Elsewhere>>

\* Mutant of WriteMock: tracking is reached without the placeholder file
WriteMock_skipped ==
    /\ pc = "Downloading"
    /\ TestMode
    /\ pc' = "Recording"
    /\ UNCHANGED <<Config, Session, files, req, ret, outcome, events, pre,
                   prev, nreq, observed, summary, Batch, img, Elsewhere>>

\* "Create mock file for testing": output_path.write_text(...)
WriteMock ==
    /\ pc = "Downloading"
    /\ TestMode
    /\ files' = WriteFile(files, req.output_path,
                          [text |-> "Mock video for scene "
                                    \o ToString(req.scene.id),
                           made_from |-> req.prompt_hash])
    /\ events' = Append(events, "write_mock")
    /\ pc' = "Recording"
    /\ UNCHANGED <<Config, Session, req, ret, outcome, pre, prev, nreq, observed, summary, Batch, img,
                   Elsewhere>>

\* "Download video" in production mode: _download_video is called once; when
\* it returns False, generate_scene_video returns None
DownloadVideo(d) ==
    /\ pc = "Downloading"
    /\ ~TestMode
    /\ events' = IF d = "ok" THEN Append(events, "download")
                 ELSE events \o <<"download", "download_error">>
    /\ files' = DownloadedFiles(files, req.output_path, req.prompt_hash, d)
    /\ IF _download_video(d)
       THEN /\ pc' = "Recording"
            /\ UNCHANGED <<ret, outcome>>
       ELSE Fail("download_failed")
    /\ UNCHANGED <<Config, Session, req, pre, prev, nreq, observed, summary, Batch, img,
                   Elsewhere>>

\* "Update tracking" and "Cache result"; the path is returned
Recording ==
    /\ pc = "Recording"
    /\ session_cost' = session_cost + EstimatedCost
    /\ generated_videos' =
           AppendVideo(generated_videos,
                       Record(req.scene, req.output_path, EstimatedCost,
                              req.prompt_hash))
    /\ cache' = CacheStore(cache, req.prompt_hash, req.output_path)
    /\ pc' = "Done"
    /\ ret' = req.output_path
    /\ outcome' = "generated"
    /\ UNCHANGED <<Config, files, req, events, pre, prev, nreq, observed, summary, Batch, img,
                   Elsewhere>>

\* Between two requests the caller asks for the session summary and keeps
\* what it gets until it starts the next request
GetSessionSummary ==
    /\ Returned
    /\ summary' = get_session_summary
    /\ UNCHANGED <<Config, Session, files, pc, req, ret, outcome, events, pre,
                   prev, nreq, observed, Batch, img, Elsewhere>>

\* Between two requests someone deletes a file of the assets directory
DeleteFile(path) ==
    /\ Returned
    /\ path \in DOMAIN files
    /\ files' = RemoveFile(files, path)
    /\ UNCHANGED <<Config, Session, pc, req, ret, outcome, events, pre, prev,
                   nreq, observed, summary, Batch, img, Elsewhere>>

Next ==
    \/ \E env \in Environments : Construct(env)
    \/ GetSessionSummary
    \/ \E scene \in Scenes, image_path \in ImagePaths : Call(scene, image_path)
    \/ CacheCheck
    \/ BudgetCheck
    \/ RequestDryRun
    \/ RequestSimulate
    \/ \E o \in ApiOutcomes : ApiAttempt(o)
    \/ WriteMock
    \/ \E d \in DownloadOutcomes : DownloadVideo(d)
    \/ Recording
    \/ \E path \in DOMAIN files : DeleteFile(path)

Spec == Init /\ [][Next]_vars

\* A step of the running request.  generate_scene_video is straight-line
\* code around one bounded loop: once called it goes on to its next
\* statement, given that fal_client.subscribe, requests.get and time.sleep
\* return or raise
RequestStep ==
    \/ CacheCheck
    \/ BudgetCheck
    \/ RequestDryRun
    \/ RequestSimulate
    \/ \E o \in ApiOutcomes : ApiAttempt(o)
    \/ WriteMock
    \/ \E d \in DownloadOutcomes : DownloadVideo(d)
    \/ Recording

\* The controller and its callers, with requests that go on once started
LiveSpec == Init /\ [][Next]_vars /\ WF_vars(RequestStep)

----------------------------------------------------------------------------
(* generate_scene_image of pipeline/image_gen.py *)

\* What one round of the retry loop of generate_scene_image can meet: the
\* image is generated and saved; it is generated and download_image returns
\* False; images.generate raises BadRequestError with or without
\* "content_policy_violation" in its text, RateLimitError, or anything else
ImageOutcomes ==
    {"saved", "download_failed", "content_policy_violation", "bad_request",
     "rate_limit", "error"}

\* def generate_scene_image(scene, max_retries: int = 1)
DefaultImageRetries == 1

\* image_path = assets_dir / f"scene_{scene.id}.png"
ImagePath(scene) == assets_dir \o "/scene_" \o ToString(scene.id) \o ".png"

\* Mutant of ImageRetry: one round more
ImageRetry_once_more(attempt, max_retries) == attempt <= max_retries

\* "if attempt < max_retries: continue" inside "for attempt in
\* range(max_retries + 1)"
ImageRetry(attempt, max_retries) == attempt < max_retries

\* generate_scene_image(scene, max_retries) is entered; client says whether
\* get_openai_client() returns a client.  Without one it returns None at once
StartImage(scene, max_retries, client) ==
    img' = [pc |-> IF client THEN "Attempt" ELSE "Failed",
            scene |-> scene, max_retries |-> max_retries, client |-> client,
            attempt |-> 0, events |-> <<>>, ret |-> None, n |-> img.n + 1]

\* The round goes on to the next one after the effects ev, or was the last
ImageRetryOrFail(ev, ev_retry) ==
    IF ImageRetry(img.attempt, img.max_retries)
    THEN [img EXCEPT !.attempt = @ + 1, !.events = @ \o ev \o ev_retry]
    ELSE [img EXCEPT !.pc = "Failed", !.ret = None, !.events = @ \o ev]

\* One round of the retry loop of generate_scene_image
ImageAttempt(o) ==
    /\ img.pc = "Attempt"
    /\ img' =
         CASE o = "saved" ->
                [img EXCEPT !.pc = "Done", !.ret = ImagePath(img.scene),
                            !.events = @ \o <<"api_call", "download">>]
           [] o = "download_failed" ->
                ImageRetryOrFail(<<"api_call", "download", "download_error">>,
                                 <<>>)
           [] o = "content_policy_violation" ->
                [img EXCEPT !.pc = "Failed", !.ret = None,
                            !.events = @ \o <<"api_call", "api_error">>]
           [] o = "bad_request" ->
                ImageRetryOrFail(<<"api_call", "api_error">>, <<>>)
           [] o = "rate_limit" ->
                ImageRetryOrFail(<<"api_call", "api_error">>, <<"sleep">>)
           [] o = "error" ->
                ImageRetryOrFail(<<"api_call", "api_error">>, <<>>)
    /\ files' = IF o = "saved"
                THEN WriteFile(files, ImagePath(img.scene),
                               [text |-> "image", made_from |-> "image"])
                ELSE files
    /\ UNCHANGED <<Controller, summary, Batch, Elsewhere>>

\* Some caller invokes generate_scene_image
GenerateSceneImage(scene, max_retries, client) ==
    /\ img.pc \in {"Idle", "Done", "Failed"}
    /\ img.n < MaxImageRequests
    /\ StartImage(scene, max_retries, client)
    /\ UNCHANGED <<Controller, files, summary, Batch, Elsewhere>>

\* Callers of generate_scene_image on an empty assets directory
ImageInit ==
    /\ Unconstructed
    /\ budget_limit = MAX_BUDGET_PER_SESSION
    /\ ~dry_run /\ ~simulate
    /\ files = <<>>
    /\ NoCommand
    /\ img = NoImageRequest
    /\ NothingElse

ImageNext ==
    \/ \E scene \in Scenes, max_retries \in 0..MaxImageRetries,
          client \in BOOLEAN :
           GenerateSceneImage(scene, max_retries, client)
    \/ \E o \in ImageOutcomes : ImageAttempt(o)

ImageSpec == ImageInit /\ [][ImageNext]_vars

----------------------------------------------------------------------------
(* The commands generate-media, generate-videos and generate-all of main.py *)

Commands == {"generate-media", "generate-videos", "generate-all"}

\* Batches of parsed scenes (scene ids are unique within a batch): one whose
\* second scene repeats the prompt of the first, one with three different
\* prompts, one of two scenes
Batches ==
    {<<WithId(SceneA, 1), WithId(SceneA, 42), WithId(SceneC, 3)>>,
     <<WithId(SceneB, 1), WithId(SceneC, 3), WithId(SceneA, 42)>>,
     <<WithId(SceneC, 3), WithId(SceneB, 1)>>}

\* Values of --budget (cents): those of Budgets and 5.0, the cost of one video
BatchBudgets == Budgets \cup {5 * 100}

\* What an earlier run has left in the assets directory
EarlierFile == [text |-> "asset", made_from |-> "earlier run"]

\* The assets directory as a command finds it: empty, with the video of
\* scene 1, with the image of scene 3, or with both
InitialFiles ==
    {[p \in paths |-> EarlierFile] :
        paths \in SUBSET {OutputPath(WithId(SceneA, 1)),
                          ImagePath(WithId(SceneC, 3))}}

\* Mutant of check_existing_assets: it looks for the image whatever the type
check_existing_assets_png_only(scenes, asset_type) ==
    [id \in {scenes[k].id : k \in 1..Len(scenes)} |->
        (assets_dir \o "/scene_" \o ToString(id) \o ".png") \in DOMAIN files]

\* check_existing_assets(scenes, asset_type)
check_existing_assets(scenes, asset_type) ==
    [id \in {scenes[k].id : k \in 1..Len(scenes)} |->
        (assets_dir \o "/scene_" \o ToString(id)
           \o (IF asset_type = "image" THEN ".png" ELSE ".mp4"))
        \in DOMAIN files]

\* existing_videos.get(scene.id, False)
ExistingVideo(scene) ==
    scene.id \in DOMAIN existing_videos /\ existing_videos[scene.id]

\* existing_assets.get(scene.id, False) of the image loops
ExistingImage(scene) ==
    scene.id \in DOMAIN existing_images /\ existing_images[scene.id]

\* results[scene_id] = value
SetResult(r, scene_id, value) ==
    [k \in DOMAIN r \cup {scene_id} |-> IF k = scene_id THEN value ELSE r[k]]

\* failed_count = sum(1 for result in results.values() if not result)
FailedCount(r) == Cardinality({k \in DOMAIN r : r[k] = None})

\* The scene the running loop is at
CurrentScene == scene_objects[scene_index]

\* Mutant of ExitInsideTry: the exit code passes the except clause
ExitInsideTry_uncaught(code) == code

\* "raise typer.Exit(code)" inside the try block of a command: typer.Exit is
\* click's Exit, a RuntimeError, so "except Exception" catches it and raises
\* typer.Exit(1) in its place
ExitInsideTry(code) == 1

\* A command has been invoked with its options; the story is taken to load
\* and to parse into a non-empty batch.  generate-media has no generator
\* options, generate-all has no --simulate
BatchInit ==
    /\ Unconstructed
    /\ budget_limit \in BatchBudgets
    /\ command \in Commands
    /\ (command = "generate-media")
        => ~dry_run /\ ~simulate /\ budget_limit = MAX_BUDGET_PER_SESSION
    /\ (command = "generate-all") => ~simulate
    /\ files \in InitialFiles
    /\ exit_code = -1
    /\ bpc = IF command = "generate-videos" THEN "confirm" ELSE "check_images"
    /\ scene_objects \in Batches
    /\ skip_existing \in BOOLEAN
    /\ existing_videos = <<>>
    /\ existing_images = <<>>
    /\ scene_index = 1
    /\ results = <<>>
    /\ image_results = <<>>
    /\ img = NoImageRequest
    /\ NothingElse

\* "Check existing assets" of generate-media, "Generate images" of
\* generate-all
CheckExistingImages ==
    /\ bpc = "check_images"
    /\ existing_images' = IF skip_existing
                          THEN check_existing_assets(scene_objects, "image")
                          ELSE <<>>
    /\ bpc' = "image_loop"
    /\ UNCHANGED <<Controller, files, summary, command, exit_code,
                   scene_objects, skip_existing, existing_videos, scene_index,
                   results, image_results, img, Elsewhere>>

\* "Skip if image already exists"
SkipExistingImage ==
    /\ bpc = "image_loop"
    /\ scene_index <= Len(scene_objects)
    /\ skip_existing /\ ExistingImage(CurrentScene)
    /\ image_results' = SetResult(image_results, CurrentScene.id, "skipped")
    /\ scene_index' = scene_index + 1
    /\ UNCHANGED <<Controller, files, summary, command, exit_code, bpc,
                   scene_objects, skip_existing, existing_videos,
                   existing_images, results, img, Elsewhere>>

\* "Generate image": the scene is passed to generate_scene_image with its
\* default max_retries
PassSceneToImage(client) ==
    /\ bpc = "image_loop"
    /\ scene_index <= Len(scene_objects)
    /\ ~(skip_existing /\ ExistingImage(CurrentScene))
    /\ StartImage(CurrentScene, DefaultImageRetries, client)
    /\ bpc' = "image_call"
    /\ UNCHANGED <<Controller, files, summary, command, exit_code,
                   scene_objects, skip_existing, existing_videos,
                   existing_images, scene_index, results, image_results,
                   Elsewhere>>

\* generate_scene_image has returned: the image result is its path or None
RecordImageResult ==
    /\ bpc = "image_call"
    /\ img.pc \in {"Done", "Failed"}
    /\ image_results' = SetResult(image_results, img.scene.id, img.ret)
    /\ scene_index' = scene_index + 1
    /\ bpc' = "image_loop"
    /\ img' = NoImageRequest
    /\ UNCHANGED <<Controller, files, summary, command, exit_code,
                   scene_objects, skip_existing, existing_videos,
                   existing_images, results, Elsewhere>>

\* generate-media after its loop: the summary, and exit code 1 when a scene
\* failed
MediaReport ==
    /\ command = "generate-media"
    /\ bpc = "image_loop"
    /\ scene_index > Len(scene_objects)
    /\ exit_code' = IF FailedCount(image_results) > 0
                    THEN ExitInsideTry(1) ELSE 0
    /\ bpc' = "exited"
    /\ UNCHANGED <<Controller, files, summary, command, scene_objects,
                   skip_existing, existing_videos, existing_images,
                   scene_index, results, image_results, img, Elsewhere>>

\* generate-all after its image loop: "Step 2: Generating scene videos"
ImagesComplete ==
    /\ command = "generate-all"
    /\ bpc = "image_loop"
    /\ scene_index > Len(scene_objects)
    /\ bpc' = "confirm"
    /\ scene_index' = 1
    /\ UNCHANGED <<Controller, files, summary, command, exit_code,
                   scene_objects, skip_existing, existing_videos,
                   existing_images, results, image_results, img, Elsewhere>>

\* The cost prompt of generate-videos (before its try block) and of
\* generate-all (inside it): typer.confirm returns answer, and on no the
\* command raises typer.Exit(0)
Confirm(answer) ==
    /\ bpc = "confirm"
    /\ IF ~dry_run /\ ~simulate /\ ~answer
       THEN /\ bpc' = "cancelled"
            /\ exit_code' = IF command = "generate-all"
                            THEN ExitInsideTry(0) ELSE 0
       ELSE /\ bpc' = IF command = "generate-all"
                      THEN "construct" ELSE "check_existing"
            /\ UNCHANGED exit_code
    /\ UNCHANGED <<Controller, files, summary, command, scene_objects,
                   skip_existing, existing_videos, existing_images,
                   scene_index, results, image_results, img, Elsewhere>>

\* "Check existing video assets": before the generator is constructed in
\* generate-videos, after it in generate-all
CheckExistingAssets ==
    /\ bpc = "check_existing"
    /\ existing_videos' = IF skip_existing
                          THEN check_existing_assets(scene_objects, "video")
                          ELSE <<>>
    /\ bpc' = IF command = "generate-all" THEN "loop" ELSE "construct"
    /\ UNCHANGED <<Controller, files, summary, command, exit_code,
                   scene_objects, skip_existing, existing_images, scene_index,
                   results, image_results, img, Elsewhere>>

\* "Initialize video generator"; a VideoGenerationError ends the command in
\* its outer except clause with exit code 1
CreateGenerator(env) ==
    /\ bpc = "construct"
    /\ VideoGenerator(env)
    /\ IF _init_fal_client(env)
       THEN /\ bpc' = IF command = "generate-all"
                      THEN "check_existing" ELSE "loop"
            /\ UNCHANGED exit_code
       ELSE /\ bpc' = "error"
            /\ exit_code' = 1
    /\ UNCHANGED <<command, scene_objects, skip_existing, existing_videos,
                   existing_images, scene_index, results, image_results, img,
                   Elsewhere>>

\* "Skip if video already exists"
SkipExisting ==
    /\ bpc = "loop"
    /\ scene_index <= Len(scene_objects)
    /\ skip_existing /\ ExistingVideo(CurrentScene)
    /\ results' = SetResult(results, CurrentScene.id, "skipped")
    /\ scene_index' = scene_index + 1
    /\ UNCHANGED <<Controller, files, summary, command, exit_code, bpc,
                   scene_objects, skip_existing, existing_videos,
                   existing_images, image_results, img, Elsewhere>>

\* generate-videos, "Check budget before generation": break when nothing
\* remains
BudgetExhausted ==
    /\ command = "generate-videos"
    /\ bpc = "loop"
    /\ scene_index <= Len(scene_objects)
    /\ ~(skip_existing /\ ExistingVideo(CurrentScene))
    /\ summary' = get_session_summary
    /\ summary'.budget_remaining <= 0
    /\ bpc' = "report"
    /\ UNCHANGED <<Controller, files, command, exit_code, scene_objects,
                   skip_existing, existing_videos, existing_images,
                   scene_index, results, image_results, img, Elsewhere>>

\* generate-videos, "Generate video": the scene is passed to
\* generate_scene_video, with the scene's image when --use-images found one
PassScene(image_path) ==
    /\ command = "generate-videos"
    /\ bpc = "loop"
    /\ scene_index <= Len(scene_objects)
    /\ ~(skip_existing /\ ExistingVideo(CurrentScene))
    /\ summary' = get_session_summary
    /\ ~(summary'.budget_remaining <= 0)
    /\ StartRequest(CurrentScene, image_path)
    /\ bpc' = "in_call"
    /\ UNCHANGED <<command, exit_code, scene_objects, skip_existing,
                   existing_videos, existing_images, scene_index, results,
                   image_results, img, Elsewhere>>

\* "Use generated image as reference if available"
GeneratedImage(scene) ==
    IF /\ scene.id \in DOMAIN image_results
       /\ image_results[scene.id] \notin {None, "skipped"}
    THEN image_results[scene.id]
    ELSE None

\* generate-all: the scene is passed to generate_scene_video; this loop asks
\* for no summary and has no break
PassSceneOfAll ==
    /\ command = "generate-all"
    /\ bpc = "loop"
    /\ scene_index <= Len(scene_objects)
    /\ ~(skip_existing /\ ExistingVideo(CurrentScene))
    /\ StartRequest(CurrentScene, GeneratedImage(CurrentScene))
    /\ bpc' = "in_call"
    /\ UNCHANGED <<summary, command, exit_code, scene_objects, skip_existing,
                   existing_videos, existing_images, scene_index, results,
                   image_results, img, Elsewhere>>

\* Mutant of RecordResult: a scene that failed ends the loop
RecordResult_failure_breaks ==
    /\ bpc = "in_call"
    /\ pc \in {"Done", "Failed"}
    /\ results' = SetResult(results, req.scene.id, ret)
    /\ scene_index' = scene_index + 1
    /\ bpc' = IF ret = None THEN "report" ELSE "loop"
    /\ UNCHANGED <<Controller, files, summary, command, exit_code,
                   scene_objects, skip_existing, existing_videos,
                   existing_images, image_results, img, Elsewhere>>

\* generate_scene_video has returned: results[scene.id] is the path or None
RecordResult ==
    /\ bpc = "in_call"
    /\ pc \in {"Done", "Failed"}
    /\ results' = SetResult(results, req.scene.id, ret)
    /\ scene_index' = scene_index + 1
    /\ bpc' = "loop"
    /\ UNCHANGED <<Controller, files, summary, command, exit_code,
                   scene_objects, skip_existing, existing_videos,
                   existing_images, image_results, img, Elsewhere>>

\* The video loop has gone through every scene: "Get final session summary"
LoopEnd ==
    /\ bpc = "loop"
    /\ scene_index > Len(scene_objects)
    /\ summary' = get_session_summary
    /\ bpc' = "report"
    /\ UNCHANGED <<Controller, files, command, exit_code, scene_objects,
                   skip_existing, existing_videos, existing_images,
                   scene_index, results, image_results, img, Elsewhere>>

\* The statistics are printed; generate-videos raises typer.Exit(1) when a
\* scene failed in production mode, otherwise the command returns
Report ==
    /\ bpc = "report"
    /\ exit_code' = IF /\ command = "generate-videos"
                       /\ FailedCount(results) > 0
                       /\ ~dry_run /\ ~simulate
                    THEN ExitInsideTry(1) ELSE 0
    /\ bpc' = "exited"
    /\ UNCHANGED <<Controller, files, summary, command, scene_objects,
                   skip_existing, existing_videos, existing_images,
                   scene_index, results, image_results, img, Elsewhere>>

BatchNext ==
    \/ CheckExistingImages
    \/ SkipExistingImage
    \/ \E client \in BOOLEAN : PassSceneToImage(client)
    \/ \E o \in ImageOutcomes : ImageAttempt(o)
    \/ RecordImageResult
    \/ MediaReport
    \/ ImagesComplete
    \/ \E answer \in BOOLEAN : Confirm(answer)
    \/ CheckExistingAssets
    \/ \E env \in Environments : CreateGenerator(env)
    \/ SkipExisting
    \/ BudgetExhausted
    \/ \E image_path \in ImagePaths : PassScene(image_path)
    \/ PassSceneOfAll
    \/ CacheCheck
    \/ BudgetCheck
    \/ RequestDryRun
    \/ RequestSimulate
    \/ \E o \in ApiOutcomes : ApiAttempt(o)
    \/ WriteMock
    \/ \E d \in DownloadOutcomes : DownloadVideo(d)
    \/ Recording
    \/ RecordResult
    \/ LoopEnd
    \/ Report

BatchSpec == BatchInit /\ [][BatchNext]_vars

----------------------------------------------------------------------------
(* Several controllers, and the module-level generate_scene_video *)

\* Mutant of NewController: cache is an attribute of the class, so that a
\* new controller starts with the entries of the running one
NewController_shared_cache(dr, sim, budget) ==
    [dry_run |-> dr, simulate |-> sim, budget_limit |-> budget,
     session_cost |-> 0, generated_videos |-> <<>>, cache |-> cache]

\* The fields __init__ gives a new controller
NewController(dr, sim, budget) ==
    [dry_run |-> dr, simulate |-> sim, budget_limit |-> budget,
     session_cost |-> 0, generated_videos |-> <<>>, cache |-> <<>>]

\* The fields of self
Self ==
    [dry_run |-> dry_run, simulate |-> simulate,
     budget_limit |-> budget_limit, session_cost |-> session_cost,
     generated_videos |-> generated_videos, cache |-> cache]

\* From now on self is controller c
Become(c) ==
    /\ dry_run' = c.dry_run
    /\ simulate' = c.simulate
    /\ budget_limit' = c.budget_limit
    /\ session_cost' = c.session_cost
    /\ generated_videos' = c.generated_videos
    /\ cache' = c.cache

\* The second controller of the program, as constructed: a simulating one
\* with a budget of two videos
OtherControllers == {NewController(FALSE, TRUE, 2 * EstimatedCost)}

\* The scenes the program asks its controllers for: two prompts
PairScenes == {WithId(SceneA, 1), WithId(SceneC, 3)}

\* A program with two controllers, the first a dry-run one about to be
\* constructed, on an empty assets directory
PairInit ==
    /\ Unconstructed
    /\ dry_run /\ ~simulate
    /\ budget_limit \in {2 * EstimatedCost, MAX_BUDGET_PER_SESSION}
    /\ files = <<>>
    /\ NoCommand
    /\ img = NoImageRequest
    /\ others \in {<<c>> : c \in OtherControllers}
    /\ parse = NoParseRequest
    /\ other_thread = NoThread

\* The program calls generate_scene_video on the controller it holds
MethodCall(scene, image_path) ==
    /\ Len(others) = 1
    /\ Call(scene, image_path)

\* Between two calls the program turns to its other controller
SwitchController ==
    /\ Returned
    /\ Len(others) = 1
    /\ Become(others[1])
    /\ others' = <<Self>>
    /\ pc' = "Idle"
    /\ UNCHANGED <<files, req, ret, outcome, events, pre, prev, nreq,
                   observed, summary, Batch, img, parse, other_thread>>

\* The module-level generate_scene_video(scene, image_path, dry_run,
\* simulate) is called: "generator = VideoGenerator(dry_run=dry_run,
\* simulate=simulate)" is about to run, the caller's controllers stay
ModuleCall(dr, sim) ==
    /\ Returned
    /\ Len(others) = 1
    /\ nreq < MaxRequests
    /\ others' = Append(others, Self)
    /\ Become(NewController(dr, sim, MAX_BUDGET_PER_SESSION))
    /\ pc' = "New"
    /\ UNCHANGED <<files, req, ret, outcome, events, pre, prev, nreq,
                   observed, summary, Batch, img, parse, other_thread>>

\* "return generator.generate_scene_video(scene, image_path)" of the
\* module-level function
ModuleRequest(scene, image_path) ==
    /\ Len(others) = 2
    /\ pc = "Idle"
    /\ StartRequest(scene, image_path)
    /\ UNCHANGED <<summary, Batch, img, Elsewhere>>

\* The module-level function returns, or its constructor has raised: its
\* controller is gone and the caller is back with its own
ModuleReturn ==
    /\ Len(others) = 2
    /\ pc \in {"Done", "Failed", "InitFailed"}
    /\ Become(others[2])
    /\ others' = <<others[1]>>
    /\ pc' = "Idle"
    /\ UNCHANGED <<files, req, ret, outcome, events, pre, prev, nreq,
                   observed, summary, Batch, img, parse, other_thread>>

PairNext ==
    \/ \E env \in Environments : Construct(env)
    \/ \E scene \in PairScenes : MethodCall(scene, None)
    \/ SwitchController
    \/ \E dr \in BOOLEAN, sim \in BOOLEAN : ModuleCall(dr, sim)
    \/ \E scene \in PairScenes : ModuleRequest(scene, None)
    \/ ModuleReturn
    \/ CacheCheck
    \/ BudgetCheck
    \/ RequestDryRun
    \/ RequestSimulate
    \/ \E o \in ApiOutcomes : ApiAttempt(o)
    \/ WriteMock
    \/ \E d \in DownloadOutcomes : DownloadVideo(d)
    \/ Recording

PairSpec == PairInit /\ [][PairNext]_vars

----------------------------------------------------------------------------
(* Two threads of the caller on one controller *)

\* The locals of the running request
ThisThread ==
    [pc |-> pc, req |-> req, ret |-> ret, outcome |-> outcome,
     events |-> events, pre |-> pre]

\* A request is between its start and its return
Running(thread) ==
    thread.pc \notin {"New", "InitFailed", "Idle", "Done", "Failed"}

\* A caller with two threads on one controller in a test mode, the controller
\* about to be constructed, on an empty assets directory
RaceInit ==
    /\ Unconstructed
    /\ dry_run # simulate
    /\ budget_limit \in {EstimatedCost, 2 * EstimatedCost}
    /\ files = <<>>
    /\ NoCommand
    /\ img = NoImageRequest
    /\ NothingElse

\* The interpreter switches threads between two steps of
\* generate_scene_video: the other thread goes on with its own locals, on
\* the same session_cost, generated_videos, cache and assets directory
Yield ==
    /\ Running(ThisThread) \/ Running(other_thread)
    /\ pc' = other_thread.pc
    /\ req' = other_thread.req
    /\ ret' = other_thread.ret
    /\ outcome' = other_thread.outcome
    /\ events' = other_thread.events
    /\ pre' = other_thread.pre
    /\ other_thread' = ThisThread
    /\ UNCHANGED <<Config, Session, files, prev, nreq, observed, summary,
                   Batch, img, others, parse>>

RaceNext ==
    \/ \E env \in Environments : Construct(env)
    \/ \E scene \in PairScenes : Call(scene, None)
    \/ Yield
    \/ CacheCheck
    \/ BudgetCheck
    \/ RequestDryRun
    \/ RequestSimulate
    \/ WriteMock
    \/ Recording

RaceSpec == RaceInit /\ [][RaceNext]_vars


----------------------------------------------------------------------------
(* parse_scenes_with_metadata of scene_parser.py *)

\* Calls of parse_scenes_with_metadata in one run
MaxParseCalls == 2

\* def call_openai_api(prompt, max_retries: int = 1)
DefaultApiRetries == 1

\* Values passed as story_text: the empty string, blanks, a story, None and
\* a number
Stories ==
    {[type |-> "str", text |-> ""], [type |-> "str", text |-> "   "],
     [type |-> "str", text |-> "A knight rode out."],
     [type |-> "NoneType", text |-> ""], [type |-> "int", text |-> "5"]}

\* str.strip() of the texts above
Strip(text) == IF text = "   " THEN "" ELSE text

\* A scene of a response that has no "title"
UntitledScene ==
    [id |-> 2, characters |-> <<>>, setting |-> "Castle courtyard",
     summary |-> "The hero fights", tone |-> "dramatic"]

\* A scene of a response that has no "characters"
UncastScene ==
    [id |-> 3, title |-> "Empty Road", setting |-> "Desert highway",
     summary |-> "Wind blows", tone |-> "calm"]

\* A JSON document: an array of so many items, or an object with keys, whose
\* "scenes" are given when it has that key
Array(items) ==
    [type |-> "array", items |-> items, keys |-> {}, scenes |-> <<>>]

Object(keys, scenes) ==
    [type |-> "object", items |-> 0, keys |-> keys, scenes |-> scenes]

\* What json.loads(content) can return
Documents ==
    {Array(0), Array(1), Object({}, <<>>), Object({"error"}, <<>>),
     Object({"scenes"}, <<>>),
     Object({"scenes"}, <<WithId(SceneA, 1)>>),
     Object({"scenes"}, <<WithId(SceneA, 1), UncastScene>>),
     Object({"scenes"}, <<WithId(SceneA, 1), UntitledScene>>),
     Object({"scenes", "success", "error_message"}, <<WithId(SceneB, 1)>>)}

\* What one round of call_openai_api can meet: the call raises, the content
\* is not JSON, or it is one of the documents
ParseOutcomes ==
    {[kind |-> "exception", document |-> Array(0)],
     [kind |-> "not_json", document |-> Array(0)]}
    \cup {[kind |-> "json", document |-> d] : d \in Documents}

\* "if not response_data"
IsFalsy(d) ==
    \/ d = NoResult
    \/ d.type = "array" /\ d.items = 0
    \/ d.type = "object" /\ d.keys = {}

\* Scene(**scene) validates: the fields without default are there
SceneValidates(scene) ==
    {"id", "title", "setting", "summary", "tone"} \subseteq DOMAIN scene

\* scene.model_dump() of a validated scene: characters defaults to []
model_dump(scene) ==
    [id |-> scene.id, title |-> scene.title,
     characters |-> IF "characters" \in DOMAIN scene
                    THEN scene.characters ELSE <<>>,
     setting |-> scene.setting, summary |-> scene.summary,
     tone |-> scene.tone]

\* Mutant of HasScenes: any list counts
HasScenes_always(scenes) == TRUE

\* "if scenes" of parse_scenes_with_metadata
HasScenes(scenes) == Len(scenes) > 0

\* SceneParseResult(scenes=..., success=..., error_message=...)
SceneParseResult(scenes, success, error_message) ==
    [scenes |-> scenes, success |-> success,
     error_message |-> error_message]

\* parse_scenes_with_metadata(story_text) is called and parse_scenes entered;
\* client says whether get_openai_client() will return a client.  None and a
\* blank text give [] at once, a value without strip() raises AttributeError,
\* and without a client call_openai_api returns None, which gives [] too
ParseScenesWithMetadata(story_text, client) ==
    /\ parse.pc \in {"Idle", "Returned"}
    /\ parse.n < MaxParseCalls
    /\ parse' =
         [pc |-> IF story_text.type = "NoneType" THEN "Wrap"
                 ELSE IF story_text.type # "str" THEN "Except"
                 ELSE IF Strip(story_text.text) = "" THEN "Wrap"
                 ELSE IF ~client THEN "Wrap"
                 ELSE "Api",
          story_text |-> story_text, client |-> client, attempt |-> 0,
          response_data |-> NoResult, scenes |-> <<>>,
          raised |-> IF story_text.type \notin {"NoneType", "str"}
                     THEN "AttributeError" ELSE None,
          result |-> NoResult, n |-> parse.n + 1]
    /\ UNCHANGED <<Controller, files, summary, Batch, img, others,
                   other_thread>>

\* One round of call_openai_api: a document is returned to parse_scenes,
\* anything else is retried once and then gives None, for which parse_scenes
\* returns []
ParseAttempt(o) ==
    /\ parse.pc = "Api"
    /\ parse' =
         IF o.kind = "json"
         THEN [parse EXCEPT !.pc = "Validate", !.response_data = o.document]
         ELSE IF parse.attempt < DefaultApiRetries
         THEN [parse EXCEPT !.attempt = @ + 1]
         ELSE [parse EXCEPT !.pc = "Wrap"]
    /\ UNCHANGED <<Controller, files, summary, Batch, img, others,
                   other_thread>>

\* parse_scenes, "Validate response structure": [] for a falsy document,
\* for one that is no object (TypeError, caught by the outer except) and for
\* one with a scene that does not validate; else the dumped scenes
ValidateResponse ==
    /\ parse.pc = "Validate"
    /\ LET d == parse.response_data
           listed == IF "scenes" \in d.keys THEN d.scenes ELSE <<>>
       IN  parse' =
             [parse EXCEPT
                !.pc = "Wrap",
                !.scenes =
                    IF \/ IsFalsy(d)
                       \/ d.type # "object"
                       \/ \E k \in 1..Len(listed) : ~SceneValidates(listed[k])
                    THEN <<>>
                    ELSE [k \in 1..Len(listed) |-> model_dump(listed[k])]]
    /\ UNCHANGED <<Controller, files, summary, Batch, img, others,
                   other_thread>>

\* parse_scenes has returned its list: the result is built from it
WrapResult ==
    /\ parse.pc = "Wrap"
    /\ parse' =
         [parse EXCEPT
            !.pc = "Returned",
            !.result =
                IF HasScenes(parse.scenes)
                THEN SceneParseResult(parse.scenes, TRUE, None)
                ELSE SceneParseResult(
                         <<>>, FALSE,
                         "Failed to parse any scenes from the story")]
    /\ UNCHANGED <<Controller, files, summary, Batch, img, others,
                   other_thread>>

\* "except Exception as e" of parse_scenes_with_metadata: the result carries
\* str(e)
ParseExcept ==
    /\ parse.pc = "Except"
    /\ parse' =
         [parse EXCEPT
            !.pc = "Returned",
            !.raised = None,
            !.result = SceneParseResult(
                           <<>>, FALSE, "str(" \o parse.raised \o ")")]
    /\ UNCHANGED <<Controller, files, summary, Batch, img, others,
                   other_thread>>

\* Callers of parse_scenes_with_metadata
ParseInit ==
    /\ Unconstructed
    /\ budget_limit = MAX_BUDGET_PER_SESSION
    /\ ~dry_run /\ ~simulate
    /\ files = <<>>
    /\ NoCommand
    /\ img = NoImageRequest
    /\ NothingElse

ParseNext ==
    \/ \E story_text \in Stories, client \in BOOLEAN :
           ParseScenesWithMetadata(story_text, client)
    \/ \E o \in ParseOutcomes : ParseAttempt(o)
    \/ ValidateResponse
    \/ WrapResult
    \/ ParseExcept

ParseSpec == ParseInit /\ [][ParseNext]_vars

----------------------------------------------------------------------------
(* Vocabulary of the properties *)

\* Occurrences of e in seq
Count(seq, e) == Cardinality({i \in 1..Len(seq) : seq[i] = e})

\* Calls of fal_client.subscribe made by the current request
ApiCalls == Count(events, "api_call")

\* Calls of _download_video made by the current request
Downloads == Count(events, "download")

Production == ~dry_run /\ ~simulate

\* The current request has returned
Finished == pc \in {"Done", "Failed"}

\* The current request is past its cache check
PastCacheCheck == pc \notin {"New", "InitFailed", "Idle", "CacheCheck"}

\* The current request is past its budget check
PastBudgetCheck ==
    pc \notin {"New", "InitFailed", "Idle", "CacheCheck", "BudgetCheck"}

\* session_cost, generated_videos and cache are as the request found them
SessionUnchanged ==
    /\ session_cost = pre.session_cost
    /\ generated_videos = pre.generated_videos
    /\ cache = pre.cache

\* No file was created or rewritten since the request started
NoFileWritten ==
    \A p \in DOMAIN files : p \in DOMAIN pre.files /\ files[p] = pre.files[p]

\* The request found its fingerprint cached with the file in place
CachedAtStart ==
    /\ req.prompt_hash \in DOMAIN pre.cache
    /\ pre.cache[req.prompt_hash] \in DOMAIN pre.files

\* Two scenes that differ in their id and in nothing else
SameButId(s, t) == s.id # t.id /\ WithId(s, 0) = WithId(t, 0)

\* 5.0 USD in cents
FiveDollars == 5 * 100

----------------------------------------------------------------------------
(* Properties *)

\* C1 (budget invariant): in every reachable state of a controller built with
\* budget_limit >= 0, whatever the scenes, the mode, the external outcomes and
\* the deletions, session_cost <= budget_limit.
C1_BudgetInvariant == budget_limit >= 0 => session_cost <= budget_limit

\* C1 witness: a budget of 10.0 USD used up to the last cent by two generations
C1_Witness ==
    /\ budget_limit = 1000
    /\ session_cost = budget_limit
    /\ Len(generated_videos) = 2

C3_FirstSucceedsSecondRefused ==
    (dry_run /\ ~simulate /\ budget_limit = 100 /\ Finished)
    => /\ nreq = 1 => ret # None
       /\ (nreq = 2 /\ SameButId(prev.scene, req.scene)) => ret = None

\* C4 (cache hit is idempotent): when the request before returned a path for
\* scene S and the file is still there, a request for the same S returns the
\* same path, makes no external call, writes no file and leaves session_cost,
\* generated_videos and cache unchanged.
C4_CacheHitIdempotent ==
    (PastCacheCheck /\ prev.ret # None /\ prev.scene = req.scene
        /\ prev.ret \in DOMAIN pre.files)
    => /\ pc = "Done"
       /\ ret = prev.ret
       /\ events = <<>>
       /\ SessionUnchanged
       /\ NoFileWritten

\* C4 witness: the same scene twice in a row, the second served from the cache
C4_Witness ==
    /\ pc = "Done" /\ outcome = "cache_hit"
    /\ prev.scene = req.scene /\ prev.ret = ret
    /\ session_cost = FiveDollars

\* C5 (the cache lookup checks the file): a request whose fingerprint is
\* cached but whose file is gone is a miss, not an error: it passes through
\* the budget check, makes a new external call and, when it succeeds, is
\* charged and recorded like a first generation.
C5_DeletedFileIsMiss ==
    (PastCacheCheck /\ req.prompt_hash \in DOMAIN pre.cache
        /\ pre.cache[req.prompt_hash] \notin DOMAIN pre.files)
    => /\ (pc = "Failed" /\ outcome = "budget_exceeded")
            <=> (PastBudgetCheck
                  /\ pre.session_cost + FiveDollars > budget_limit)
       /\ (Production /\ Finished /\ outcome # "budget_exceeded")
            => ApiCalls >= 1
       /\ pc = "Done"
            => /\ outcome = "generated"
               /\ ret = OutputPath(req.scene)
               /\ session_cost = pre.session_cost + FiveDollars
               /\ generated_videos =
                      Append(pre.generated_videos,
                             [scene_id |-> req.scene.id, path |-> ret,
                              cost |-> FiveDollars,
                              prompt_hash |-> req.prompt_hash])
               /\ cache = [h \in DOMAIN pre.cache |->
                              IF h = req.prompt_hash THEN ret
                              ELSE pre.cache[h]]

\* C5 witness: in production mode a scene is generated, its file is deleted,
\* and the same scene is generated again
C5_Witness ==
    /\ Production
    /\ pc = "Done" /\ outcome = "generated"
    /\ prev.scene = req.scene /\ prev.ret # None
    /\ prev.ret \notin DOMAIN pre.files
    /\ Len(generated_videos) = 2

C7_FileNamedAfterScene ==
    pc = "Done" => ret = assets_dir \o "/" \o FileName(req.scene)

\* C8 (retry bound): in production mode a request whose every attempt fails
\* makes exactly MAX_RETRIES + 1 = 3 attempts and returns None; once an
\* attempt returns a response with a "video" field no further attempt is made.
C8_RetryBound ==
    /\ MAX_RETRIES + 1 = 3
    /\ ApiCalls <= MAX_RETRIES + 1
    /\ (Production /\ PastBudgetCheck /\ pc # "Requesting"
          /\ events # <<>> /\ Count(events, "api_ok") = 0)
        => /\ ApiCalls = MAX_RETRIES + 1
           /\ pc = "Failed"
           /\ ret = None
    /\ \A i \in 1..Len(events) :
          events[i] = "api_ok"
          => /\ pc # "Requesting"
             /\ events[i - 1] = "api_call"
             /\ Count(events, "api_call") = Count(SubSeq(events, 1, i), "api_call")
             /\ Count(events, "api_ok") = 1

\* C8 witness: three failed attempts, by exception and by malformed response
C8_Witness ==
    /\ pc = "Failed" /\ outcome = "api_failed"
    /\ ApiCalls = 3
    /\ Count(events, "api_error") >= 1
    /\ Count(events, "api_invalid") >= 1

\* C9 (as claimed): in production mode a response without a usable video
\* location, be it no "video" field or a "video" field without url, is
\* retried, so that the request fails only after MAX_RETRIES + 1 attempts.
C9_NoUrlIsRetried ==
    (Production /\ pc = "Failed"
        /\ outcome \in {"api_failed", "no_video_url"})
    => ApiCalls = MAX_RETRIES + 1

\* C10 (a download failure is terminal): in production mode, when the
\* download fails the request returns None after one download attempt, with
\* no further generation call, no charge, no record and no cache entry.
C10_DownloadFailureTerminal ==
    Count(events, "download_error") > 0
    => /\ pc = "Failed"
       /\ outcome = "download_failed"
       /\ ret = None
       /\ Downloads = 1
       /\ events[Len(events)] = "download_error"
       /\ events[Len(events) - 1] = "download"
       /\ Count(events, "api_ok") = 1
       /\ SessionUnchanged

\* C10 witness: a download that broke off after the file was opened
C10_Witness ==
    /\ pc = "Failed" /\ outcome = "download_failed"
    /\ req.output_path \in DOMAIN files
    /\ files[req.output_path].text = "partial"
    /\ req.prompt_hash \notin DOMAIN cache

\* The ways generate_scene_video ends with None
FailureReasons ==
    {"budget_exceeded", "api_failed", "no_video_url", "download_failed",
     "unexpected_error"}

\* C11 (generate_scene_video never raises): a request ends only by returning;
\* when the budget is exceeded, the retries are exhausted, the response is
\* empty or has no video URL, the download fails or anything unexpected
\* happens, it returns None, and every request that returns None leaves
\* session_cost, generated_videos and cache as they were before it.
C11_NeverRaises ==
    /\ pc \in {"New", "InitFailed", "Idle", "CacheCheck", "BudgetCheck",
               "Requesting", "Downloading", "Recording", "Done", "Failed"}
    /\ (pc = "Failed")
        => /\ outcome \in FailureReasons
           /\ ret = None
           /\ SessionUnchanged
    /\ (pc = "Done")
        => /\ outcome \in {"cache_hit", "generated"}
           /\ ret # None
    /\ (Finished /\ ret = None) => SessionUnchanged

\* C11 witness: an exception that is neither a budget nor an API error (the
\* response's "video" field is None) was caught and turned into None
C11_Witness ==
    /\ pc = "Failed" /\ outcome = "unexpected_error"
    /\ ret = None
    /\ Count(events, "api_ok") = 1

\* C12 (credential rule): a controller constructed with dry_run or simulate
\* reads neither fal_client nor FAL_KEY and is always constructed; with both
\* flags false, a controller exists only when FAL_KEY was read and found, and
\* otherwise construction ends in VideoGenerationError before any request.
C12_CredentialRule ==
    /\ (~Production /\ pc # "New")
        => /\ observed = <<>>
           /\ pc # "InitFailed"
    /\ (Production /\ pc \notin {"New", "InitFailed"})
        => observed = [fal_client |-> TRUE, FAL_KEY |-> TRUE]
    /\ (pc = "InitFailed")
        => /\ Production
           /\ outcome = "VideoGenerationError"
           /\ nreq = 0 /\ events = <<>>
           /\ session_cost = 0 /\ generated_videos = <<>>
    /\ (Production /\ pc # "New"
          /\ observed = [fal_client |-> TRUE, FAL_KEY |-> FALSE])
        => pc = "InitFailed"

\* C12 witness: production construction found fal_client but no FAL_KEY
C12_Witness ==
    /\ Production /\ pc = "InitFailed"
    /\ observed = [fal_client |-> TRUE, FAL_KEY |-> FALSE]
    /\ outcome = "VideoGenerationError"

Materialized ==
    /\ req.output_path \in DOMAIN files
    /\ files[req.output_path].made_from = req.prompt_hash
    /\ files[req.output_path].text # "partial"
    /\ events # <<>>
    /\ events[Len(events)] \in {"download", "write_mock"}

\* The order in which one request may move through its steps
StepOrder ==
    {<<"CacheCheck", "BudgetCheck">>, <<"CacheCheck", "Done">>,
     <<"BudgetCheck", "Requesting">>, <<"BudgetCheck", "Failed">>,
     <<"Requesting", "Requesting">>, <<"Requesting", "Downloading">>,
     <<"Requesting", "Failed">>,
     <<"Downloading", "Recording">>, <<"Downloading", "Failed">>,
     <<"Recording", "Done">>}

\* One step of the controller in the order the claim C14 describes
C14_Step ==
    /\ \/ <<pc, pc'>> \in StepOrder
       \/ pc' = "CacheCheck" /\ Returned
       \/ pc = "New" /\ pc' \in {"Idle", "InitFailed"}
       \/ pc' = pc /\ Returned
    /\ (ApiCalls' # ApiCalls /\ pc' # "CacheCheck")
        => /\ pc = "Requesting"
           /\ SessionUnchanged
           /\ session_cost + FiveDollars <= budget_limit
    /\ (Downloads' # Downloads /\ pc' # "CacheCheck")
        => /\ pc = "Downloading"
           /\ Count(events, "api_ok") = 1
    /\ (files' # files /\ ~Returned)
        => pc = "Downloading"
    /\ (Session' # Session)
        => /\ pc = "Recording" /\ pc' = "Done"
           /\ Materialized
           /\ files' = files

\* C14 (step ordering within one request): the steps occur only in the order
\* cache check, budget check, external call, download or placeholder,
\* recording; no external call is issued before the budget check has passed,
\* and session_cost, generated_videos and cache change only after the
\* artifact file has been materialized successfully.
C14_StepOrdering == [][C14_Step]_vars

\* C14 witness: a production request went through every step
C14_Witness ==
    /\ Production
    /\ pc = "Done" /\ outcome = "generated"
    /\ events = <<"api_call", "api_error", "retry_sleep", "api_call", "api_ok",
                  "download">>
    /\ Materialized

\* The text write_text puts at the output path in dry-run and simulate mode
MockText(scene) == "Mock video for scene " \o ToString(scene.id)

C16_SimulateNoCost ==
    (simulate /\ ~dry_run /\ pc = "Done" /\ outcome = "generated")
    => /\ session_cost = pre.session_cost
       /\ budget_limit - session_cost = budget_limit - pre.session_cost

\* The summary the caller holds agrees with the controller
SummaryConsistent ==
    (summary # NoResult)
    => /\ summary.videos_generated = Len(generated_videos)
       /\ summary.total_cost = session_cost
       /\ summary.budget_remaining = budget_limit - session_cost
       /\ summary.dry_run = dry_run
       /\ summary.simulate = simulate
       /\ (nreq = 0)
           => /\ summary.videos_generated = 0
              /\ summary.total_cost = 0
              /\ summary.budget_remaining = budget_limit

\* A step in which get_session_summary returns leaves the controller alone
SummaryReadOnly ==
    (summary' # summary /\ summary' # NoResult)
    => UNCHANGED <<Config, Session, files, pc, req, ret, outcome, events,
                   observed>>

\* C17 (session summary consistency): get_session_summary returns
\* videos_generated = len(generated_videos), total_cost = session_cost,
\* budget_remaining = budget_limit - session_cost and the mode flags given at
\* construction; on a fresh controller it shows 0 videos and cost 0.0; and
\* the call changes no controller state.
C17_SessionSummary == []SummaryConsistent /\ [][SummaryReadOnly]_vars

\* C17 witness: a summary taken after one generation on budget 10.0
C17_Witness ==
    /\ summary # NoResult
    /\ budget_limit = 10 * 100
    /\ summary.videos_generated = 1
    /\ summary.total_cost = FiveDollars
    /\ summary.budget_remaining = FiveDollars
    /\ summary.dry_run

\* One step never lowers session_cost and keeps every record of
\* generated_videos where it is
C18_Step ==
    /\ session_cost' >= session_cost
    /\ Len(generated_videos') >= Len(generated_videos)
    /\ SubSeq(generated_videos', 1, Len(generated_videos)) = generated_videos
    /\ Len(generated_videos') <= Len(generated_videos) + 1

\* C18 (append-only history, monotone cost): over any sequence of operations
\* on one controller session_cost never decreases and generated_videos only
\* grows at its end; no record is modified, reordered or removed.
C18_AppendOnly == [][C18_Step]_vars

\* C18 witness: a second, different record has been appended behind the first
C18_Witness ==
    /\ pc = "Done" /\ outcome = "generated"
    /\ Len(pre.generated_videos) = 1
    /\ Len(generated_videos) = 2
    /\ generated_videos[1] = pre.generated_videos[1]
    /\ generated_videos[2] # generated_videos[1]
    /\ session_cost > pre.session_cost

\* The technical specifications every prompt ends with
TechnicalSpecifications ==
    "Style: Cinematic, high quality, professional lighting. "
    \o "Camera: Dynamic cinematography with smooth movements. "
    \o "Duration: 8-12 seconds. Quality: 1080p resolution, 24fps"

\* Two scenes with the same title, setting, characters, summary and tone
SameContent(s, t) == WithId(s, 0) = WithId(t, 0)

\* C19 (prompt and fingerprint determinism): the prompt is built from title,
\* setting, characters, summary and tone only, without a characters clause
\* when the list is empty; so the fingerprint of a request is that of its
\* scene's content, whatever the scene id and the reference image, and two
\* requests for the same content have the same fingerprint and cache key.
C19_PromptDeterminism ==
    /\ (pc = "CacheCheck")
        => /\ req.prompt_hash =
                  _generate_prompt_hash(
                      _build_video_prompt(WithId(req.scene, 0), None))
           /\ \A image_path \in ImagePaths :
                  _build_video_prompt(req.scene, image_path)
                      = "Scene: " \o req.scene.title
                        \o ". Setting: " \o req.scene.setting
                        \o (IF req.scene.characters = <<>> THEN ""
                            ELSE ". Characters: "
                                 \o Join(", ", req.scene.characters))
                        \o ". Action: " \o req.scene.summary
                        \o ". Tone: " \o req.scene.tone
                        \o ". " \o TechnicalSpecifications
    /\ (nreq >= 2 /\ SameContent(prev.scene, req.scene))
        => req.prompt_hash = prev.prompt_hash
    /\ (pc = "Done" /\ outcome = "cache_hit")
        => /\ req.prompt_hash \in DOMAIN pre.cache
           /\ ret = pre.cache[req.prompt_hash]

\* C19 witness: scene 42 follows scene 1 with the same content and has the
\* same fingerprint
C19_Witness ==
    /\ nreq >= 2
    /\ prev.scene.id = 1 /\ req.scene.id = 42
    /\ SameContent(prev.scene, req.scene)
    /\ req.prompt_hash = prev.prompt_hash
    /\ req.prompt_hash = "bec0b90d819b"

\* C20 (as claimed): in the generate-videos loop, once a scene has been
\* refused because its cost would exceed the remaining budget, processing
\* halts: no later scene of the batch is passed to generate_scene_video.
C20_BudgetRefusalHaltsBatch ==
    (command = "generate-videos"
       /\ bpc = "in_call" /\ pc = "CacheCheck" /\ nreq >= 2)
    => outcome # "budget_exceeded"

----------------------------------------------------------------------------
(* Batches: what a failed scene does to the rest of the loop *)

\* Scene k of the batch has an entry in the results r of a loop
Processed(r, k) == scene_objects[k].id \in DOMAIN r

\* Scene k of the batch is recorded as failed in r
RecordedFailed(r, k) == Processed(r, k) /\ r[scene_objects[k].id] = None

\* A video loop that ended before its last scene
StoppedEarly ==
    /\ command \in {"generate-videos", "generate-all"}
    /\ bpc \in {"report", "exited"}
    /\ scene_index <= Len(scene_objects)

\* C21: a scene whose generation returns None is recorded as failed and the
\* loop goes on to the next scene: every scene before the one the loop is at
\* has a result, the image loop ends only after its last scene, and a video
\* loop ends before its last scene only by the break of generate-videos on
\* an exhausted budget, never because a scene failed.  The controller that failed serves the next
\* request as any other: a generation after a failure returns the written
\* file and is charged once
C21_FailureDoesNotEndBatch ==
    /\ bpc \in {"image_loop", "image_call"}
       => \A k \in 1..(scene_index - 1) : Processed(image_results, k)
    /\ (command = "generate-media" /\ bpc = "exited")
       => /\ \A k \in 1..Len(scene_objects) : Processed(image_results, k)
          /\ exit_code = 1 <=> FailedCount(image_results) > 0
    /\ (command # "generate-media"
          /\ bpc \in {"loop", "in_call", "report", "exited"})
       => \A k \in 1..(scene_index - 1) : Processed(results, k)
    /\ StoppedEarly
       => command = "generate-videos" /\ budget_limit - session_cost <= 0
    /\ (bpc = "loop" /\ pc = "Failed") => results[req.scene.id] = None
    /\ (bpc = "in_call" /\ pc = "Done" /\ outcome = "generated"
          /\ nreq >= 2 /\ prev.ret = None)
       => /\ ret = req.output_path
          /\ ret \in DOMAIN files
          /\ session_cost = pre.session_cost + EstimatedCost

\* A generate-videos run is over: its first scene failed, a later one was
\* generated by the same controller and every scene has a result
C21_Witness ==
    /\ bpc = "exited"
    /\ command = "generate-videos"
    /\ RecordedFailed(results, 1)
    /\ \E m \in 2..Len(scene_objects) :
           /\ Processed(results, m)
           /\ results[scene_objects[m].id] \notin {None, "skipped"}
    /\ \A k \in 1..Len(scene_objects) : Processed(results, k)
    /\ session_cost > 0

----------------------------------------------------------------------------
(* Batches: assets that exist already *)

\* The loop of a command is at a scene it has not looked at yet
AtVideoScene == bpc = "loop" /\ scene_index <= Len(scene_objects)

AtImageScene == bpc = "image_loop" /\ scene_index <= Len(scene_objects)

\* The one step a video loop takes at its current scene.  With skip-existing
\* and the scene's .mp4 in the assets directory the scene is marked skipped
\* and the controller is left alone; otherwise the scene is passed to
\* generate_scene_video, unless generate-videos breaks on its used-up budget
C22_VideoStep ==
    AtVideoScene =>
        IF skip_existing /\ OutputPath(CurrentScene) \in DOMAIN files
        THEN /\ results' = SetResult(results, CurrentScene.id, "skipped")
             /\ scene_index' = scene_index + 1
             /\ UNCHANGED <<Controller, files>>
        ELSE \/ /\ bpc' = "in_call"
                /\ pc' = "CacheCheck"
                /\ req'.scene = CurrentScene
                /\ nreq' = nreq + 1
             \/ /\ command = "generate-videos"
                /\ budget_limit - session_cost <= 0
                /\ bpc' = "report"
                /\ UNCHANGED <<Controller, files, results>>

\* The one step an image loop takes at its current scene
C22_ImageStep ==
    AtImageScene =>
        IF skip_existing /\ ImagePath(CurrentScene) \in DOMAIN files
        THEN /\ image_results'
                  = SetResult(image_results, CurrentScene.id, "skipped")
             /\ scene_index' = scene_index + 1
             /\ UNCHANGED <<img, files>>
        ELSE /\ bpc' = "image_call"
             /\ img'.scene = CurrentScene
             /\ img'.n = img.n + 1
             /\ img'.pc \in {"Attempt", "Failed"}

\* The asset of a scene the loop has not reached is the one the batch found
\* when it started
AssetsOfLaterScenesUntouched ==
    /\ AtVideoScene
       => \A k \in scene_index..Len(scene_objects) :
              OutputPath(scene_objects[k]) \in DOMAIN files
              => files[OutputPath(scene_objects[k])] = EarlierFile
    /\ AtImageScene
       => \A k \in scene_index..Len(scene_objects) :
              ImagePath(scene_objects[k]) \in DOMAIN files
              => files[ImagePath(scene_objects[k])] = EarlierFile

\* A scene marked skipped keeps the asset the batch found
SkippedKeepsAsset ==
    /\ \A k \in DOMAIN results :
           results[k] = "skipped"
           => /\ skip_existing
              /\ files[assets_dir \o "/scene_" \o ToString(k) \o ".mp4"]
                     = EarlierFile
    /\ \A k \in DOMAIN image_results :
           image_results[k] = "skipped"
           => /\ skip_existing
              /\ files[assets_dir \o "/scene_" \o ToString(k) \o ".png"]
                     = EarlierFile

\* C22: with skip-existing a scene whose asset existed when the batch started
\* is marked skipped without a call of the generator and keeps that asset;
\* every other scene the loop comes to, and with --overwrite every scene it
\* comes to, is passed to the generator
C22_SkipExisting ==
    /\ [](AssetsOfLaterScenesUntouched /\ SkippedKeepsAsset)
    /\ [][C22_VideoStep /\ C22_ImageStep]_vars

\* A video batch has skipped scene 1, whose video existed, made no request
\* for it and passed the next scene to the generator
C22_Witness ==
    /\ skip_existing
    /\ bpc = "in_call"
    /\ scene_index = 2
    /\ results = SetResult(<<>>, 1, "skipped")
    /\ nreq = 1
    /\ req.scene = scene_objects[2]

----------------------------------------------------------------------------
(* Three scenes on the controller of the test suite *)

\* budget_limit=10.0 of the video_generator fixture, in cents
TenDollars == 10 * 100

\* The third request of a dry-run controller with budget 10.0 has returned,
\* the two before it generated a video each and its prompt is a new one
ThirdOfThreeDifferent ==
    /\ dry_run /\ ~simulate
    /\ budget_limit = TenDollars
    /\ nreq = 3
    /\ pc \in {"Done", "Failed"}
    /\ Len(pre.generated_videos) = 2
    /\ req.prompt_hash \notin DOMAIN pre.cache

\* C23 as stated: on a dry-run controller with budget 10.0, three scenes with
\* pairwise different prompts each return a path, and the session ends with
\* three videos
C23_ThreeScenesAllGenerated ==
    ThirdOfThreeDifferent
    => /\ ret # None
       /\ Len(generated_videos) = 3
       /\ get_session_summary.videos_generated = 3

----------------------------------------------------------------------------
(* Session state is per controller *)

\* The session of controller c holds what c itself has generated and nothing
\* else: one charge and one cache entry per recorded video
OwnSession(c) ==
    /\ c.session_cost = EstimatedCost * Len(c.generated_videos)
    /\ DOMAIN c.cache
         = {c.generated_videos[k].prompt_hash :
               k \in 1..Len(c.generated_videos)}

\* The module-level function is running
InModuleCall == Len(others) = 2

\* What a step does to the controllers other than self: a switch exchanges
\* self and the other controller field by field; the module-level function
\* sets self aside as it is and gives it back as it was; every other step,
\* and so every step of a generate_scene_video call, leaves them as they are
C24_Step ==
    IF Returned /\ pc' = "Idle" /\ Len(others') = Len(others)
    THEN others' = <<Self>> /\ Self' = others[1]
    ELSE /\ \A k \in DOMAIN others \cap DOMAIN others' :
                others'[k] = others[k]
         /\ Len(others') > Len(others) => others'[Len(others')] = Self
         /\ Len(others') < Len(others) => Self' = others[Len(others)]
         /\ Len(others') = Len(others) => others' = others

\* The module-level function works on a controller of its own: it starts
\* with no cost and an empty cache whatever was generated before, never ends
\* in a cache hit and never holds more than the cost of one video
ModuleCallStartsAfresh ==
    InModuleCall
    => /\ session_cost <= EstimatedCost
       /\ pc \notin {"New", "Idle", "InitFailed"}
          => /\ pre.session_cost = 0
             /\ pre.cache = <<>>
             /\ pre.generated_videos = <<>>
       /\ pc = "Done"
          => outcome = "generated" /\ session_cost = EstimatedCost

\* C24: a generate_scene_video call on one controller leaves the
\* session_cost, generated_videos and cache of every other controller
\* unchanged, each controller's session holds only its own videos, and the
\* module-level function never serves a cache hit and never accumulates cost
C24_PerControllerState ==
    /\ [](OwnSession(Self) /\ \A k \in DOMAIN others : OwnSession(others[k]))
    /\ []ModuleCallStartsAfresh
    /\ [][C24_Step]_vars

\* The module-level function has generated the video of a scene a second
\* time, the file of the first time still in place, while both controllers
\* of the caller hold sessions of their own
C24_Witness ==
    /\ InModuleCall
    /\ pc = "Done"
    /\ nreq = MaxRequests
    /\ req.output_path \in DOMAIN pre.files
    /\ \E k \in DOMAIN others :
           /\ req.prompt_hash \in DOMAIN others[k].cache
           /\ others[k].session_cost = EstimatedCost
    /\ \E k \in DOMAIN others : others[k].session_cost = 0

----------------------------------------------------------------------------
(* generate_scene_image: the retry contract *)

\* Calls of the image API in the current call of generate_scene_image
ImageApiCalls == Count(img.events, "api_call")

\* C25: generate_scene_image(scene, max_retries) calls the image API at most
\* max_retries + 1 times; it returns the path of scene_{id}.png at the first
\* round whose API call and download both succeed, with the file saved and
\* no call after it; in every other case it returns None: at once and
\* without an API call when there is no client, and after at least one call
\* when the rounds have failed
C25_ImageRetryContract ==
    /\ ImageApiCalls <= img.max_retries + 1
    /\ img.attempt <= img.max_retries
    /\ img.pc = "Done"
       => /\ img.ret
               = assets_dir \o "/scene_" \o ToString(img.scene.id) \o ".png"
          /\ img.ret \in DOMAIN files
          /\ ImageApiCalls = img.attempt + 1
          /\ Count(img.events, "download") >= 1
          /\ SubSeq(img.events, Len(img.events) - 1, Len(img.events))
               = <<"api_call", "download">>
    /\ img.pc = "Failed" => img.ret = None
    /\ (img.n >= 1 /\ ~img.client)
       => img.pc = "Failed" /\ img.events = <<>>
    /\ (img.pc = "Failed" /\ img.client) => ImageApiCalls >= 1
    /\ img.pc \in {"Idle", "Attempt", "Done", "Failed"}

\* A call with max_retries = 2 has returned the path after two failed rounds:
\* three API calls
C25_Witness ==
    /\ img.pc = "Done"
    /\ img.max_retries = MaxImageRetries
    /\ ImageApiCalls = MaxImageRetries + 1
    /\ Count(img.events, "sleep") = 1

----------------------------------------------------------------------------
(* parse_scenes_with_metadata: the result *)

\* The response the call received holds at least one scene and all its
\* scenes validate
SomeSceneParsed ==
    /\ parse.response_data # NoResult
    /\ parse.response_data.type = "object"
    /\ "scenes" \in parse.response_data.keys
    /\ Len(parse.response_data.scenes) >= 1
    /\ \A k \in 1..Len(parse.response_data.scenes) :
           SceneValidates(parse.response_data.scenes[k])

\* C26: parse_scenes_with_metadata returns a result for every input and
\* never lets an exception out; success is True exactly when a scene was
\* parsed, and then the result lists the scenes of the response; every
\* result without success has no scenes and an error_message, as for blank
\* input, a missing client, failed API rounds and a response without scenes
C26_ParseResult ==
    /\ parse.pc \in {"Idle", "Api", "Validate", "Wrap", "Except", "Returned"}
    /\ parse.pc = "Returned"
       => /\ parse.raised = None
          /\ parse.result.success <=> Len(parse.result.scenes) >= 1
          /\ parse.result.success <=> SomeSceneParsed
          /\ parse.result.success
             => /\ Len(parse.result.scenes)
                     = Len(parse.response_data.scenes)
                /\ parse.result.error_message = None
          /\ ~parse.result.success
             => /\ parse.result.scenes = <<>>
                /\ parse.result.error_message # None
          /\ (parse.story_text.type # "str"
                \/ Strip(parse.story_text.text) = ""
                \/ ~parse.client
                \/ parse.response_data = NoResult)
             => ~parse.result.success

\* The call has returned without success for a well-formed response that
\* lists no scene
C26_Witness ==
    /\ parse.pc = "Returned"
    /\ parse.response_data = Object({"scenes"}, <<>>)
    /\ ~parse.result.success
    /\ parse.result.scenes = <<>>
    /\ parse.result.error_message
         = "Failed to parse any scenes from the story"

----------------------------------------------------------------------------
(* Declining the cost confirmation *)

\* C27 as stated: when the user answers no to the cost prompt, generate-videos
\* and generate-all both end with exit code 0, no VideoGenerator has been
\* constructed and no video generated
C27_DeclineIsCleanCancel ==
    bpc = "cancelled"
    => /\ exit_code = 0
       /\ pc = "New"
       /\ nreq = 0
       /\ generated_videos = <<>>
       /\ results = <<>>

----------------------------------------------------------------------------
(* The cache is consulted before the budget *)

\* C28: a request whose fingerprint is cached with its file in place returns
\* the cached path at the cache check, untouched by the budget, even when
\* session_cost + 5.0 > budget_limit; the budget check is reached, and a
\* request refused for the budget, only on a cache miss
C28_CacheBeforeBudget ==
    /\ (PastCacheCheck /\ CachedAtStart
          /\ pre.session_cost + EstimatedCost > budget_limit)
       => /\ pc = "Done"
          /\ outcome = "cache_hit"
          /\ ret = pre.cache[req.prompt_hash]
          /\ events = <<>>
          /\ session_cost = pre.session_cost
    /\ pc = "BudgetCheck" => ~CachedAtStart
    /\ (pc = "Failed" /\ outcome = "budget_exceeded") => ~CachedAtStart

\* With its budget of 10.0 used up by two videos, the controller has served
\* a third request from its cache
C28_Witness ==
    /\ pc = "Done" /\ outcome = "cache_hit"
    /\ budget_limit = 2 * EstimatedCost
    /\ session_cost = budget_limit
    /\ nreq = MaxRequests
    /\ ret \in DOMAIN files

----------------------------------------------------------------------------
(* The budget check is strict *)

\* The running request was refused by the budget check
RefusedForBudget == pc = "Failed" /\ outcome = "budget_exceeded"

----------------------------------------------------------------------------
(* Backoff between the attempts of the external call *)

\* C30 as stated: in production mode every attempt of the external call but
\* the first comes directly after the backoff delay, whether the attempt
\* before it raised or returned a malformed response, and the request does
\* not end on a delay
C30_BackoffBetweenAttempts ==
    Production
    => /\ \A k \in 2..Len(events) :
              events[k] = "api_call" => events[k - 1] = "retry_sleep"
       /\ (Finished /\ Len(events) > 0)
          => events[Len(events)] # "retry_sleep"

----------------------------------------------------------------------------
(* C31 *)

\* The step takes session_cost from within the budget to above it
Overshoots ==
    /\ session_cost <= budget_limit
    /\ session_cost' > budget_limit

\* Since the running request started, another request has been recorded
RecordedMeanwhile == session_cost > pre.session_cost

\* C31: with two threads on one controller, whose steps of
\* generate_scene_video interleave, the step that takes session_cost above
\* budget_limit is the cost increment of a request that passed its budget
\* check before another request's increment, which came in between; no
\* request that runs from its start to its end alone overshoots, and two
\* threads overshoot by at most one estimate
C31_OvershootNeedsInterleaving ==
    /\ [](session_cost <= budget_limit + EstimatedCost)
    /\ [][Overshoots =>
            /\ pc = "Recording"
            /\ pc' = "Done"
            /\ RecordedMeanwhile]_vars

\* Both threads passed the budget check before either was recorded, both
\* were recorded, and session_cost is above budget_limit
C31_Witness ==
    /\ pc = "Done"
    /\ outcome = "generated"
    /\ other_thread.pc = "Done"
    /\ other_thread.outcome = "generated"
    /\ pre.session_cost = other_thread.pre.session_cost
    /\ session_cost > budget_limit

----------------------------------------------------------------------------
(* C32 *)

\* C32 (as claimed): a path returned from the cache for a fingerprint names
\* a file that was last written by a generation with that fingerprint, also
\* when the same scene id was generated with another prompt in between.
C32_CacheHitServesOwnArtifact ==
    (pc = "Done" /\ outcome = "cache_hit" /\ ret \in DOMAIN files)
        => files[ret].made_from = req.prompt_hash

----------------------------------------------------------------------------
(* C33 *)

RECURSIVE SumOfCosts(_)
\* The sum of the cost fields of the records
SumOfCosts(videos) ==
    IF videos = <<>> THEN 0
    ELSE Head(videos).cost + SumOfCosts(Tail(videos))

\* C33 (ledger and records agree): in every reachable state session_cost is
\* the sum of the cost fields of generated_videos, which is 5.0 times the
\* number of records.
C33_LedgerMatchesRecords ==
    /\ session_cost = SumOfCosts(generated_videos)
    /\ session_cost = FiveDollars * Len(generated_videos)

\* C33 witness: two videos are recorded, and a later request has failed
\* without a record
C33_Witness ==
    /\ Len(generated_videos) = 2
    /\ pc = "Failed"
    /\ session_cost = 2 * FiveDollars

----------------------------------------------------------------------------
(* C34 *)

\* The positions of the records with this fingerprint
RecordsOf(h) ==
    {k \in 1..Len(generated_videos) : generated_videos[k].prompt_hash = h}

\* The most recent record with this fingerprint
LastRecordOf(h) ==
    generated_videos[CHOOSE k \in RecordsOf(h) : \A j \in RecordsOf(h) : j <= k]

\* C34 (cache and records agree): in every reachable state the keys of the
\* cache are exactly the fingerprints of the records in generated_videos,
\* each cached path is the path of the most recent record with its
\* fingerprint, and no step removes a cache entry.
C34_CacheMatchesRecords ==
    /\ [](/\ \A h \in DOMAIN cache : RecordsOf(h) # {}
          /\ \A k \in 1..Len(generated_videos) :
                 generated_videos[k].prompt_hash \in DOMAIN cache
          /\ \A h \in DOMAIN cache : cache[h] = LastRecordOf(h).path)
    /\ [][DOMAIN cache \subseteq DOMAIN cache']_vars

\* C34 witness: a fingerprint has two records with different paths (the file
\* of the first was deleted in between) and the cache holds the later path
C34_Witness ==
    \E h \in DOMAIN cache :
        /\ Cardinality(RecordsOf(h)) = 2
        /\ generated_videos[1].path # generated_videos[2].path
        /\ cache[h] = generated_videos[2].path

----------------------------------------------------------------------------
(* C35 *)

\* C35 (both flags): a controller constructed with dry_run and simulate both
\* true behaves as a dry-run controller: construction reads no credential and
\* never fails, no request sleeps, calls the generation service or downloads,
\* the mock result is the dry-run one, and a successful request has written
\* the placeholder file at the path it returns.
C35_BothFlagsIsDryRun ==
    (dry_run /\ simulate)
    => /\ pc # "New" => (observed = <<>> /\ pc # "InitFailed")
       /\ \A k \in 1..Len(events) : events[k] = "write_mock"
       /\ pc \in {"Downloading", "Recording"} => req.video_url = MockUrl
       /\ pc = "Recording"
           => /\ events = <<"write_mock">>
              /\ req.output_path \in DOMAIN files
              /\ files[req.output_path].text = MockText(req.scene)
       /\ (pc = "Done" /\ outcome = "generated")
           => /\ events = <<"write_mock">>
              /\ ret = req.output_path

\* C35 witness: a controller with both flags has generated a scene and its
\* placeholder file is in place
C35_Witness ==
    /\ dry_run /\ simulate
    /\ pc = "Done" /\ outcome = "generated"
    /\ ret \in DOMAIN files
    /\ files[ret].text = MockText(req.scene)
    /\ observed = <<>>

----------------------------------------------------------------------------
(* C36 *)

\* The calls of the generation service that returned a video, in all
\* requests of the session so far
BillableCalls == prev.billed + VideosReturned(req, events)

\* C36 (as claimed): in production mode 5.0 times the number of external
\* generation calls that returned a video never exceeds budget_limit, also
\* when the download of a returned video failed.
C36_BillableCallsWithinBudget ==
    Production => FiveDollars * BillableCalls <= budget_limit

----------------------------------------------------------------------------
(* C37 *)

\* successful_generations of the report: the results that are a path
GeneratedCount(r) ==
    Cardinality({k \in DOMAIN r : r[k] # None /\ r[k] # "skipped"})

\* skipped_count of the report
SkippedCount(r) == Cardinality({k \in DOMAIN r : r[k] = "skipped"})

\* C37 (as claimed): when generate-videos prints its report, the numbers of
\* generated, skipped and failed scenes add up to the number of scenes of
\* the batch, also when the loop stopped on an exhausted budget.
C37_ReportAddsUp ==
    (command = "generate-videos" /\ bpc = "report")
    => GeneratedCount(results) + SkippedCount(results) + FailedCount(results)
           = Len(scene_objects)

----------------------------------------------------------------------------
(* C38 *)

\* A request has been called and has not returned
InRequest ==
    pc \in {"CacheCheck", "BudgetCheck", "Requesting", "Downloading",
            "Recording"}

\* The step leaves the request as it ended, or is the call of the next one
EndedStaysEnded ==
    Finished
    => \/ UNCHANGED <<pc, req, ret, outcome, events, session_cost,
                      generated_videos, cache>>
       \/ /\ pc' = "CacheCheck"
          /\ nreq' = nreq + 1
          /\ events' = <<>>

\* C38 (termination): every request that is started ends, provided each
\* external call and download returns or raises; a request makes at most
\* MAX_RETRIES + 1 attempts; it ends with a path (Done) or with None
\* (Failed), and an ended request takes no further step: the next change of
\* the controller is the call of another request.
C38_RequestTerminates ==
    /\ InRequest ~> Finished
    /\ [](ApiCalls <= MAX_RETRIES + 1)
    /\ [](InRequest => req.attempt <= MAX_RETRIES)
    /\ [](pc = "Done" => ret # None)
    /\ [](pc = "Failed" => ret = None)
    /\ [][EndedStaysEnded]_vars

\* C38 witness: a request has ended with None after MAX_RETRIES + 1 attempts
\* that all raised, each but the last followed by the backoff
C38_Witness ==
    /\ pc = "Failed" /\ outcome = "api_failed" /\ ret = None
    /\ events = <<"api_call", "api_error", "retry_sleep",
                  "api_call", "api_error", "retry_sleep",
                  "api_call", "api_error">>

====
